---- MODULE Spec2Model ----
(***************************************************************************)
(* Cinco Vidas: the round state machine (engine/round.ts, engine/rules.ts, *)
(* engine/deck.ts) driven by the session orchestrator                      *)
(* (rooms/CincoVidasRoom.ts).                                              *)
(*                                                                         *)
(* Array indices are the source's 0-based indices; At(seq, i) reads        *)
(* element i of a TLA+ sequence.  Player ids are the session ids, modelled *)
(* as the integers 1..MaxJoins in order of arrival; NULL is null.          *)
(***************************************************************************)
EXTENDS Integers, Sequences, FiniteSets, TLC

\* ------------------------------------------------------------------ bounds
\* Sessions that ever join the room.
MaxJoins == 3
\* Rounds dealt in one match (guards advanceRound).
MaxRound == 2
\* Participant events (messages, leaves, reconnections) after the joins.
MaxIntents == 2
\* The same, for the specification whose participants stay connected and only
\* start, predict and surrender (SpecSeated).
MaxSeatedIntents == 4
\* The same, for the specification of joins, starts and leaves up to the
\* teardown of the session (SpecTeardown).
MaxTeardownIntents == 3
\* Values the random source can take: Math.random() = r / RandLevels.
RandLevels == 1

\* --------------------------------------------------------- program constants
STARTING_LIVES == 5
TURN_TIMER_SECONDS == 15
MIN_CLIENTS == 2
MAX_PLAYERS == 8
NULL == 0

SUIT_HIERARCHY == <<"oros", "copas", "espadas", "bastos">>
RANKS == <<1, 2, 3, 4, 5, 6, 7, 10, 11, 12>>
CARDS_PER_ROUND_CYCLE == <<5, 4, 3, 2, 1>>

\* ------------------------------------------------------------------ helpers
At(seq, i) == seq[i + 1]

\* Array.prototype.indexOf: 0-based position of x, -1 when absent.
IndexOf(seq, x) ==
    IF \E k \in 1..Len(seq) : seq[k] = x
    THEN (CHOOSE k \in 1..Len(seq) : seq[k] = x /\ \A m \in 1..(k - 1) : seq[m] # x) - 1
    ELSE -1

\* Array.prototype.findIndex on player ids.
FindIndex(players, id) ==
    IF \E k \in 1..Len(players) : players[k].id = id
    THEN (CHOOSE k \in 1..Len(players) :
              players[k].id = id /\ \A m \in 1..(k - 1) : players[m].id # id) - 1
    ELSE -1

\* { ...state, ...updates }
Merge(state, updates) ==
    [k \in DOMAIN state |-> IF k \in DOMAIN updates THEN updates[k] ELSE state[k]]

Abs(x) == IF x < 0 THEN -x ELSE x

Min(a, b) == IF a < b THEN a ELSE b

ActiveCount(players) ==
    Cardinality({k \in 1..Len(players) : ~players[k].isEliminated})

\* --------------------------------------------------------------- engine/deck
createDeck ==
    [k \in 1..40 |->
        [suit |-> SUIT_HIERARCHY[((k - 1) \div 10) + 1],
         rank |-> RANKS[((k - 1) % 10) + 1]]]

\* Card.id is `${suit}_${rank}`; the pair itself stands for the string.
CardId(c) == <<c.suit, c.rank>>

Swap(deck, i, j) ==
    [deck EXCEPT ![i + 1] = At(deck, j), ![j + 1] = At(deck, i)]

\* Fisher-Yates from position i down to 1, with Math.random() = r / RandLevels
\* at every draw, so j = floor(random * (i + 1)).
RECURSIVE ShuffleFrom(_, _, _)
ShuffleFrom(deck, i, r) ==
    IF i <= 0 THEN deck
    ELSE ShuffleFrom(Swap(deck, i, (r * (i + 1)) \div RandLevels), i - 1, r)

shuffleDeck(deck, r) == ShuffleFrom(deck, Len(deck) - 1, r)

\* dealCards with slice in place of splice: every hand is cut from the top of
\* the same deck.
dealCardsFromTop(deck, numPlayers, cardsPerPlayer) ==
    [hands |-> [p \in 1..numPlayers |-> SubSeq(deck, 1, Min(cardsPerPlayer, Len(deck)))],
     remaining |-> SubSeq(deck, Min(cardsPerPlayer, Len(deck)) + 1, Len(deck))]

\* hands[p] = deckCopy.splice(0, cardsPerPlayer), p = 0..numPlayers-1.
dealCards(deck, numPlayers, cardsPerPlayer) ==
    [hands |->
        [p \in 1..numPlayers |->
            SubSeq(deck, Min((p - 1) * cardsPerPlayer, Len(deck)) + 1,
                         Min(p * cardsPerPlayer, Len(deck)))],
     remaining |->
        SubSeq(deck, Min(numPlayers * cardsPerPlayer, Len(deck)) + 1, Len(deck))]

createAndDeal(numActivePlayers, cardsPerPlayer, r) ==
    dealCards(shuffleDeck(createDeck, r), numActivePlayers, cardsPerPlayer).hands

\* -------------------------------------------------------------- engine/rules
\* compareCards without the suit tiebreaker.
compareCardsByRank(a, b) == IndexOf(RANKS, a.rank) - IndexOf(RANKS, b.rank)

compareCards(a, b) ==
    LET rankIndexA == IndexOf(RANKS, a.rank)
        rankIndexB == IndexOf(RANKS, b.rank)
        suitIndexA == IndexOf(SUIT_HIERARCHY, a.suit)
        suitIndexB == IndexOf(SUIT_HIERARCHY, b.suit)
    IN  IF rankIndexA # rankIndexB THEN rankIndexA - rankIndexB
        ELSE suitIndexB - suitIndexA

\* The loop of resolveTrick over trick[i..], carrying the current winner.
RECURSIVE ResolveFrom(_, _, _)
ResolveFrom(trick, i, winner) ==
    IF i >= Len(trick) THEN winner
    ELSE IF compareCards(At(trick, i).card, winner.card) > 0
         THEN ResolveFrom(trick, i + 1, At(trick, i))
         ELSE ResolveFrom(trick, i + 1, winner)

\* resolveTrick that returns the first card played.
resolveTrickFirst(trick) == At(trick, 0)

\* Defined for a non-empty trick; the source throws on an empty one.
resolveTrick(trick) == ResolveFrom(trick, 1, At(trick, 0))

\* A call of resolveTrick with its outcome: the Error thrown for an empty
\* trick, or the value returned.
resolveTrickCall(trick) ==
    IF Len(trick) = 0
    THEN [threw |-> TRUE, value |-> <<>>]
    ELSE [threw |-> FALSE, value |-> <<resolveTrick(trick)>>]

getCardsForRound(roundNumber) ==
    At(CARDS_PER_ROUND_CYCLE, (roundNumber - 1) % Len(CARDS_PER_ROUND_CYCLE))

\* validatePrediction without the dealer restriction.
validatePredictionRangeOnly(prediction, cardsThisRound, isDealer, currentPredictionSum) ==
    prediction >= 0 /\ prediction <= cardsThisRound

validatePrediction(prediction, cardsThisRound, isDealer, currentPredictionSum) ==
    IF prediction < 0 THEN FALSE
    ELSE IF prediction > cardsThisRound THEN FALSE
    ELSE IF isDealer /\ currentPredictionSum + prediction = cardsThisRound THEN FALSE
    ELSE TRUE

getDealerForbiddenPrediction(cardsThisRound, currentPredictionSum) ==
    LET forbidden == cardsThisRound - currentPredictionSum
    IN  IF forbidden >= 0 /\ forbidden <= cardsThisRound THEN forbidden ELSE -1

\* calculateLivesLost without Math.abs.
calculateLivesLostSigned(prediction, tricksWon) == prediction - tricksWon

calculateLivesLost(prediction, tricksWon) == Abs(prediction - tricksWon)

\* The while loop of getNextActivePlayerIndex: the values of next and safety
\* when it exits.
RECURSIVE NextActiveLoop(_, _, _, _)
NextActiveLoop(next, safety, players, direction) ==
    LET n == Len(players)
    IN  IF At(players, next).isEliminated /\ safety < n
        THEN NextActiveLoop((next + direction + n) % n, safety + 1, players, direction)
        ELSE [next |-> next, safety |-> safety]

\* getNextActivePlayerIndex without the loop that skips eliminated players.
getNextSeatIndex(currentIndex, players, direction) ==
    LET n == Len(players)
    IN  (currentIndex + direction + n) % n

getNextActivePlayerIndex(currentIndex, players, direction) ==
    LET n == Len(players)
    IN  NextActiveLoop((currentIndex + direction + n) % n, 0, players, direction).next

\* The while loop of getPredictionOrder.  `steps` counts its iterations: the
\* walk is a function of `current` alone, so once it has made more than
\* players.length iterations without meeting dealerIndex it never will, and
\* the loop does not terminate.  <<-1>> stands for that outcome.
RECURSIVE PredictionOrderLoop(_, _, _, _, _)
PredictionOrderLoop(current, order, steps, dealerIndex, players) ==
    IF current = dealerIndex THEN Append(order, dealerIndex)
    ELSE IF steps > Len(players) THEN <<-1>>
    ELSE PredictionOrderLoop(
             getNextActivePlayerIndex(current, players, 1),
             IF ~At(players, current).isEliminated THEN Append(order, current) ELSE order,
             steps + 1, dealerIndex, players)

getPredictionOrder(dealerIndex, players) ==
    PredictionOrderLoop(getNextActivePlayerIndex(dealerIndex, players, 1),
                        <<>>, 0, dealerIndex, players)

Diverges(order) == order = <<-1>>

getValidMoves(hand) == [k \in 1..Len(hand) |-> k - 1]

\* resolveSimultaneousEliminations without the rule that keeps the greatest
\* lives alive.
eliminateAllAtOrBelowZero(playersWithNewLives) ==
    {p.index : p \in {q \in playersWithNewLives : q.lives <= 0}}

\* Indices of the candidates to eliminate, as a set.
resolveSimultaneousEliminations(playersWithNewLives) ==
    LET atOrBelowZero == {p \in playersWithNewLives : p.lives <= 0}
        maxLives == CHOOSE m \in {p.lives : p \in atOrBelowZero} :
                        \A p \in atOrBelowZero : p.lives <= m
        survivors == {p \in atOrBelowZero : p.lives = maxLives}
    IN  IF Cardinality(atOrBelowZero) <= 1 THEN {p.index : p \in atOrBelowZero}
        ELSE IF Cardinality(survivors) = Cardinality(atOrBelowZero)
             THEN {p.index : p \in atOrBelowZero}
        ELSE {p.index : p \in {q \in atOrBelowZero : q.lives # maxLives}}

\* -------------------------------------------------------------- engine/round
NoUpdates == <<>>

startNewRound(state, r) ==
    LET nextRound == state.currentRound + 1
        cardsThisRound == getCardsForRound(nextRound)
        nextDealerIdx == getNextActivePlayerIndex(state.dealerIndex, state.players, 1)
        firstPredictorIdx == getNextActivePlayerIndex(nextDealerIdx, state.players, 1)
        hands == createAndDeal(ActiveCount(state.players), cardsThisRound, r)
        \* value of handIdx when the map reaches players[k]
        handIdx(k) == Cardinality({m \in 1..(k - 1) : ~state.players[m].isEliminated})
        updatedPlayers ==
            [k \in 1..Len(state.players) |->
                IF state.players[k].isEliminated THEN state.players[k]
                ELSE [state.players[k] EXCEPT
                         !.hand = At(hands, handIdx(k)),
                         !.handSize = Len(At(hands, handIdx(k))),
                         !.prediction = -1,
                         !.tricksWon = 0]]
    IN  [phase |-> "predicting",
         currentRound |-> nextRound,
         cardsThisRound |-> cardsThisRound,
         dealerIndex |-> nextDealerIdx,
         activePlayerIndex |-> firstPredictorIdx,
         players |-> updatedPlayers,
         currentTrick |-> <<>>,
         trickNumber |-> 1,
         winnerId |-> NULL,
         turnTimer |-> TURN_TIMER_SECONDS]

\* state.players.reduce((sum, p) => sum + (p.prediction >= 0 ? p.prediction : 0), 0)
RECURSIVE PredictionSum(_)
PredictionSum(players) ==
    IF players = <<>> THEN 0
    ELSE (IF Head(players).prediction >= 0 THEN Head(players).prediction ELSE 0)
         + PredictionSum(Tail(players))

\* Result: success, the partial state to merge, and `diverges` when the call
\* never returns (getPredictionOrder loops forever).
makePrediction(state, playerIndex, prediction) ==
    LET player == At(state.players, playerIndex)
        currentSum == PredictionSum(state.players)
        isDealer == playerIndex = state.dealerIndex
        updatedPlayers == [state.players EXCEPT ![playerIndex + 1].prediction = prediction]
        predictionOrder == getPredictionOrder(state.dealerIndex, state.players)
        isLast == playerIndex = At(predictionOrder, Len(predictionOrder) - 1)
        rejectedResult == [success |-> FALSE, diverges |-> FALSE, newState |-> NoUpdates]
    IN  IF state.phase # "predicting" THEN rejectedResult
        ELSE IF state.activePlayerIndex # playerIndex THEN rejectedResult
        ELSE IF ~validatePrediction(prediction, state.cardsThisRound, isDealer, currentSum)
             THEN rejectedResult
        ELSE IF Diverges(predictionOrder)
             THEN [success |-> FALSE, diverges |-> TRUE, newState |-> NoUpdates]
        ELSE IF isLast
             THEN [success |-> TRUE, diverges |-> FALSE,
                   newState |->
                       [players |-> updatedPlayers,
                        phase |-> "playing",
                        activePlayerIndex |->
                            getNextActivePlayerIndex(state.dealerIndex, state.players, 1),
                        turnTimer |-> TURN_TIMER_SECONDS]]
        ELSE [success |-> TRUE, diverges |-> FALSE,
              newState |->
                  [players |-> updatedPlayers,
                   activePlayerIndex |->
                       getNextActivePlayerIndex(playerIndex, state.players, 1),
                   turnTimer |-> TURN_TIMER_SECONDS]]

\* newHand.splice(cardIndex, 1)
RemoveAt(hand, cardIndex) ==
    SubSeq(hand, 1, cardIndex) \o SubSeq(hand, cardIndex + 2, Len(hand))

\* playCard that leaves handSize as it was.
playCardKeepHandSize(state, playerIndex, cardIndex) ==
    LET player == At(state.players, playerIndex)
        card == At(player.hand, cardIndex)
        newHand == RemoveAt(player.hand, cardIndex)
        updatedPlayers ==
            [state.players EXCEPT ![playerIndex + 1] =
                [player EXCEPT !.hand = newHand]]
        playedCard == [playerId |-> player.id, card |-> card]
        newTrick == Append(state.currentTrick, playedCard)
        activePlayersCount == ActiveCount(state.players)
        isTrickComplete == Len(newTrick) = activePlayersCount
        rejectedResult == [success |-> FALSE, newState |-> NoUpdates]
    IN  IF state.phase # "playing" THEN rejectedResult
        ELSE IF state.activePlayerIndex # playerIndex THEN rejectedResult
        ELSE IF cardIndex < 0 \/ cardIndex >= Len(player.hand) THEN rejectedResult
        ELSE IF isTrickComplete
             THEN [success |-> TRUE,
                   newState |->
                       [players |-> updatedPlayers,
                        currentTrick |-> newTrick,
                        phase |-> "trickResolve",
                        activePlayerIndex |-> -1,
                        turnTimer |-> 0]]
        ELSE [success |-> TRUE,
              newState |->
                  [players |-> updatedPlayers,
                   currentTrick |-> newTrick,
                   activePlayerIndex |->
                       getNextActivePlayerIndex(playerIndex, state.players, 1),
                   turnTimer |-> TURN_TIMER_SECONDS]]

playCard(state, playerIndex, cardIndex) ==
    LET player == At(state.players, playerIndex)
        card == At(player.hand, cardIndex)
        newHand == RemoveAt(player.hand, cardIndex)
        updatedPlayers ==
            [state.players EXCEPT ![playerIndex + 1] =
                [player EXCEPT !.hand = newHand, !.handSize = Len(newHand)]]
        playedCard == [playerId |-> player.id, card |-> card]
        newTrick == Append(state.currentTrick, playedCard)
        activePlayersCount == ActiveCount(state.players)
        isTrickComplete == Len(newTrick) = activePlayersCount
        rejectedResult == [success |-> FALSE, newState |-> NoUpdates]
    IN  IF state.phase # "playing" THEN rejectedResult
        ELSE IF state.activePlayerIndex # playerIndex THEN rejectedResult
        ELSE IF cardIndex < 0 \/ cardIndex >= Len(player.hand) THEN rejectedResult
        ELSE IF isTrickComplete
             THEN [success |-> TRUE,
                   newState |->
                       [players |-> updatedPlayers,
                        currentTrick |-> newTrick,
                        phase |-> "trickResolve",
                        activePlayerIndex |-> -1,
                        turnTimer |-> 0]]
        ELSE [success |-> TRUE,
              newState |->
                  [players |-> updatedPlayers,
                   currentTrick |-> newTrick,
                   activePlayerIndex |->
                       getNextActivePlayerIndex(playerIndex, state.players, 1),
                   turnTimer |-> TURN_TIMER_SECONDS]]

\* Called with a non-empty currentTrick (resolveTrick throws otherwise).
resolveTrickState(state) ==
    LET winnerPlayedCard == resolveTrick(state.currentTrick)
        winnerIndex == FindIndex(state.players, winnerPlayedCard.playerId)
        updatedPlayers ==
            [state.players EXCEPT ![winnerIndex + 1].tricksWon = @ + 1]
        isRoundOver == state.trickNumber = state.cardsThisRound
    IN  IF isRoundOver
        THEN [players |-> updatedPlayers,
              currentTrick |-> <<>>,
              phase |-> "scoring",
              winnerId |-> NULL]
        ELSE [players |-> updatedPlayers,
              currentTrick |-> <<>>,
              trickNumber |-> state.trickNumber + 1,
              phase |-> "playing",
              activePlayerIndex |-> winnerIndex,
              turnTimer |-> TURN_TIMER_SECONDS]

applyScores(state) ==
    LET newLives(p) == p.lives - calculateLivesLost(p.prediction, p.tricksWon)
        survivors ==
            {[index |-> k - 1, lives |-> newLives(state.players[k])] :
                k \in {m \in 1..Len(state.players) : ~state.players[m].isEliminated}}
        eliminatedIndices == resolveSimultaneousEliminations(survivors)
        updatedPlayers ==
            [k \in 1..Len(state.players) |->
                IF state.players[k].isEliminated THEN state.players[k]
                ELSE [state.players[k] EXCEPT
                         !.lives = newLives(state.players[k]),
                         !.isEliminated = (k - 1) \in eliminatedIndices]]
        activeCount == ActiveCount(updatedPlayers)
        alive == SelectSeq(updatedPlayers, LAMBDA p : ~p.isEliminated)
    IN  IF activeCount <= 1
        THEN [players |-> updatedPlayers,
              phase |-> "gameOver",
              winnerId |-> IF alive # <<>> THEN Head(alive).id ELSE NULL]
        ELSE [players |-> updatedPlayers,
              phase |-> "scoring"]

\* ------------------------------------------------------ rooms/CincoVidasRoom
VARIABLES
    logicState,         \* this.logicState
    maxClients,         \* this.maxClients
    locked,             \* this.lock() was called
    turnTimerInterval,  \* TRUE while the setInterval of startTurnTimer is armed
    trickTimeouts,      \* pending clock.setTimeout(.., POST_TRICK_PAUSE) callbacks
    roundTimeouts,      \* pending clock.setTimeout(.., 5000) callbacks
    connected,          \* session ids with a live connection
    reconnecting,       \* session ids with a pending allowReconnection
    joins,              \* sessions that have joined so far
    intentsLeft,        \* participant events the environment may still send
    halted,             \* a handler never returned, or threw out of a timer
    disposed,           \* the session was torn down
    lastEvent           \* history: the handler that ran last, and whether the
                        \* intent or automatic move it carried was applied

vars == <<logicState, maxClients, locked, turnTimerInterval, trickTimeouts,
          roundTimeouts, connected, reconnecting, joins, intentsLeft, halted,
          disposed, lastEvent>>

\* The part of the room that the handlers below pass along and mutate.
Room ==
    [logicState |-> logicState,
     turnTimerInterval |-> turnTimerInterval,
     trickTimeouts |-> trickTimeouts,
     roundTimeouts |-> roundTimeouts,
     locked |-> locked,
     halted |-> halted]

Commit(R) ==
    /\ logicState' = R.logicState
    /\ turnTimerInterval' = R.turnTimerInterval
    /\ trickTimeouts' = R.trickTimeouts
    /\ roundTimeouts' = R.roundTimeouts
    /\ locked' = R.locked
    /\ halted' = R.halted

updateLogicState(R, updates) ==
    [R EXCEPT !.logicState = Merge(@, updates)]

\* No seat is ever a bot in the room (addBot, below, is only called when
\* players.length === 1, after startGame has returned for players.length < 2),
\* so the botTimeout branch never arms a timeout.
startTurnTimer(R) ==
    [updateLogicState(R, [turnTimer |-> TURN_TIMER_SECONDS])
        EXCEPT !.turnTimerInterval = TRUE]

checkPhaseTransition(R) ==
    IF R.logicState.phase = "trickResolve"
    THEN [R EXCEPT !.trickTimeouts = @ + 1]
    ELSE IF R.logicState.phase \in {"playing", "predicting"}
    THEN startTurnTimer(R)
    ELSE R

advanceRound(R, r) ==
    startTurnTimer(updateLogicState(R, startNewRound(R.logicState, r)))

\* The id `bot_${idx}`: session ids are positive, bot ids negative.
BotId(idx) == -1 - idx

addBot(R) ==
    LET idx == Len(R.logicState.players)
        bot == [id |-> BotId(idx),
                lives |-> STARTING_LIVES,
                hand |-> <<>>,
                handSize |-> 0,
                isEliminated |-> FALSE,
                isConnected |-> TRUE,
                prediction |-> -1,
                tricksWon |-> 0,
                seatIndex |-> idx,
                isBot |-> TRUE,
                isHost |-> FALSE]
    IN  [R EXCEPT !.logicState.players = Append(@, bot)]

startGame(R, r) ==
    IF Len(R.logicState.players) < 2 THEN R
    ELSE LET R1 == IF Len(R.logicState.players) = 1 THEN addBot(R) ELSE R
         IN  advanceRound(
                 [R1 EXCEPT !.locked = TRUE,
                            !.logicState.dealerIndex = Len(R1.logicState.players) - 1,
                            !.logicState.activePlayerIndex = 0],
                 r)

\* valid[Math.floor(Math.random() * valid.length)] with Math.random() = r / RandLevels
RandomChoice(valid, r) ==
    IF Len(valid) > 0 THEN At(valid, (r * Len(valid)) \div RandLevels) ELSE 0

handleBotTurn(R, r) ==
    LET ls == R.logicState IN
    IF ls.phase = "predicting"
    THEN LET result == makePrediction(ls, ls.activePlayerIndex, 0)
         IN  IF result.diverges THEN [R EXCEPT !.halted = TRUE]
             ELSE IF result.success
                  THEN checkPhaseTransition(updateLogicState(R, result.newState))
             ELSE R
    ELSE IF ls.phase = "playing"
    THEN LET hand == At(ls.players, ls.activePlayerIndex).hand
             choice == RandomChoice(getValidMoves(hand), r)
             result == playCard(ls, ls.activePlayerIndex, choice)
         IN  IF result.success
             THEN checkPhaseTransition(updateLogicState(R, result.newState))
             ELSE R
    ELSE R

handleTurnTimeout(R, r) == handleBotTurn(R, r)

\* removePlayer that drops the seat whatever the phase.
removePlayerAnyPhase(R, sessionId) ==
    [R EXCEPT !.logicState.players = SelectSeq(@, LAMBDA p : p.id # sessionId)]

removePlayer(R, sessionId) ==
    IF R.logicState.phase = "lobby"
    THEN [R EXCEPT !.logicState.players =
              SelectSeq(@, LAMBDA p : p.id # sessionId)]
    ELSE LET idx == FindIndex(R.logicState.players, sessionId)
         IN  IF idx # -1
             THEN [R EXCEPT !.logicState.players[idx + 1].isConnected = FALSE]
             ELSE R

\* players.find(pred): 0-based index of the first match, -1 when none.
FindFirst(players, Pred(_)) ==
    IF \E k \in 1..Len(players) : Pred(players[k])
    THEN (CHOOSE k \in 1..Len(players) :
              Pred(players[k]) /\ \A m \in 1..(k - 1) : ~Pred(players[m])) - 1
    ELSE -1

Event(kind, applied) == [kind |-> kind, applied |-> applied]

\* A value of options.maxClients as the handler sees it: a number, or a value
\* that is not a number (a non-empty text such as "abc"), for which every
\* relational comparison of the language is false.
Num(n) == [numeric |-> TRUE, value |-> n]

NotANumber == [numeric |-> FALSE, value |-> 0]

\* options.maxClients as given by the creator; Num(0) stands for "not given"
\* (undefined and 0 are both falsy).
MaxClientsOptions == {Num(0), Num(1), Num(9), NotANumber}

Falsy(x) == x.numeric /\ x.value = 0

Lt(x, n) == x.numeric /\ x.value < n

Gt(x, n) == x.numeric /\ x.value > n

ClampMaxClients(option) ==
    LET given == IF Falsy(option) THEN Num(MAX_PLAYERS) ELSE option
        floored == IF Lt(given, MIN_CLIENTS) THEN Num(MIN_CLIENTS) ELSE given
    IN  IF Gt(floored, 8) THEN Num(8) ELSE floored

\* The framework's hasReachedMaxClients: count >= this.maxClients.
hasReachedMaxClients(count) == maxClients.numeric /\ count >= maxClients.value

InitRoom ==
    /\ logicState =
           [phase |-> "lobby",
            players |-> <<>>,
            currentRound |-> 0,
            cardsThisRound |-> 0,
            dealerIndex |-> -1,
            activePlayerIndex |-> 0,
            currentTrick |-> <<>>,
            trickNumber |-> 1,
            winnerId |-> NULL,
            turnTimer |-> TURN_TIMER_SECONDS]
    /\ maxClients \in {ClampMaxClients(o) : o \in MaxClientsOptions}
    /\ locked = FALSE
    /\ turnTimerInterval = FALSE
    /\ trickTimeouts = 0
    /\ roundTimeouts = 0
    /\ connected = {}
    /\ reconnecting = {}
    /\ joins = 0
    /\ halted = FALSE
    /\ disposed = FALSE
    /\ lastEvent = Event("create", TRUE)

Init == InitRoom /\ intentsLeft = MaxIntents

Rand == 0..(RandLevels - 1)

\* A message of client c reaches its handler: the session is live and c has
\* a connection.
Handles(c) ==
    /\ ~halted
    /\ c \in connected
    /\ intentsLeft > 0

CardSchemaOf(c) == [id |-> CardId(c), suit |-> c.suit, rank |-> c.rank]

\* syncState: the schema state rebuilt from logicState (name and color are
\* not part of the model; isHost is not a field of PlayerSchema).
syncState(state) ==
    [phase |-> state.phase,
     currentRound |-> state.currentRound,
     cardsThisRound |-> state.cardsThisRound,
     dealerIndex |-> state.dealerIndex,
     activePlayerIndex |-> state.activePlayerIndex,
     trickNumber |-> state.trickNumber,
     winnerId |-> state.winnerId,
     turnTimer |-> state.turnTimer,
     players |->
         [k \in 1..Len(state.players) |->
             LET p == state.players[k]
             IN  [id |-> p.id,
                  lives |-> p.lives,
                  handSize |-> p.handSize,
                  isEliminated |-> p.isEliminated,
                  isConnected |-> p.isConnected,
                  prediction |-> p.prediction,
                  tricksWon |-> p.tricksWon,
                  seatIndex |-> p.seatIndex,
                  isBot |-> p.isBot,
                  hand |-> [j \in 1..Len(p.hand) |-> CardSchemaOf(p.hand[j])]]],
     currentTrick |->
         [j \in 1..Len(state.currentTrick) |->
             [playerId |-> state.currentTrick[j].playerId,
              card |-> CardSchemaOf(state.currentTrick[j].card)]]]

\* What client c receives: the schema declares no per-client view of any
\* field, so every client is sent the whole schema state.
PublishedTo(state, c) == syncState(state)

\* onJoin.  The framework refuses the join when the room is locked or full.
OnJoin ==
    /\ ~halted
    /\ ~disposed
    /\ ~locked
    /\ joins < MaxJoins
    /\ ~hasReachedMaxClients(Cardinality(connected \cup reconnecting))
    /\ LET c == joins + 1
           idx == Len(logicState.players)
           newPlayer ==
               [id |-> c,
                lives |-> STARTING_LIVES,
                hand |-> <<>>,
                handSize |-> 0,
                isEliminated |-> FALSE,
                isConnected |-> TRUE,
                prediction |-> -1,
                tricksWon |-> 0,
                seatIndex |-> idx,
                isBot |-> FALSE,
                isHost |-> (Len(logicState.players) = 0)]
       IN  /\ logicState' =
                 [logicState EXCEPT
                     !.dealerIndex = IF idx = 0 THEN 0 ELSE @,
                     !.players = Append(@, newPlayer)]
           /\ connected' = connected \cup {c}
           /\ joins' = c
    /\ lastEvent' = Event("join", TRUE)
    /\ UNCHANGED <<maxClients, disposed, locked, turnTimerInterval, trickTimeouts,
                   roundTimeouts, reconnecting, intentsLeft, halted>>

\* onMessage("start_game")
StartGameMsg(c) ==
    /\ Handles(c)
    /\ logicState.currentRound < MaxRound
    /\ LET idx == FindIndex(logicState.players, c)
       IN  \E r \in Rand :
               IF idx # -1 /\ At(logicState.players, idx).isHost
               THEN Commit(startGame(Room, r))
               ELSE Commit(Room)
    /\ lastEvent' = Event("start_game", logicState' # logicState)
    /\ intentsLeft' = intentsLeft - 1
    /\ UNCHANGED <<maxClients, disposed, connected, reconnecting, joins>>

PredictionInputs == {-1, 0, logicState.cardsThisRound, logicState.cardsThisRound + 1}

\* onMessage("predict")
PredictMsg(c, prediction) ==
    /\ Handles(c)
    /\ LET playerIdx == FindIndex(logicState.players, c)
           result == makePrediction(logicState, playerIdx, prediction)
       IN  IF playerIdx = -1 THEN Commit(Room)
           ELSE IF result.diverges THEN Commit([Room EXCEPT !.halted = TRUE])
           ELSE IF result.success
                THEN Commit(checkPhaseTransition(updateLogicState(Room, result.newState)))
           ELSE Commit(Room)
    /\ lastEvent' = Event("predict", logicState' # logicState)
    /\ intentsLeft' = intentsLeft - 1
    /\ UNCHANGED <<maxClients, disposed, connected, reconnecting, joins>>

CardIndexInputs(c) ==
    LET playerIdx == FindIndex(logicState.players, c)
        n == IF playerIdx = -1 THEN 0 ELSE Len(At(logicState.players, playerIdx).hand)
    IN  {-1, 0, n - 1, n}

\* onMessage("play_card")
PlayCardMsg(c, cardIndex) ==
    /\ Handles(c)
    /\ LET playerIdx == FindIndex(logicState.players, c)
           result == playCard(logicState, playerIdx, cardIndex)
       IN  IF playerIdx = -1 THEN Commit(Room)
           ELSE IF result.success
                THEN Commit(checkPhaseTransition(updateLogicState(Room, result.newState)))
           ELSE Commit(Room)
    /\ lastEvent' = Event("play_card", logicState' # logicState)
    /\ intentsLeft' = intentsLeft - 1
    /\ UNCHANGED <<maxClients, disposed, connected, reconnecting, joins>>

\* The in-match branch of onMessage("surrender") for a non-eliminated seat.
Surrender(R, c, playerIdx) ==
    LET players0 == R.logicState.players
        wasHost == At(players0, playerIdx).isHost
        players1 ==
            [players0 EXCEPT ![playerIdx + 1] =
                [@ EXCEPT !.lives = 0, !.isEliminated = TRUE,
                          !.hand = <<>>, !.handSize = 0,
                          !.isHost = IF wasHost THEN FALSE ELSE @]]
        nextHost == FindFirst(players1,
                        LAMBDA p : p.id # c /\ ~p.isBot /\ p.isConnected /\ ~p.isEliminated)
        players2 ==
            IF wasHost /\ nextHost # -1
            THEN [players1 EXCEPT ![nextHost + 1].isHost = TRUE]
            ELSE players1
        R2 == [R EXCEPT !.logicState.players = players2]
        survivors == SelectSeq(players2, LAMBDA p : ~p.isEliminated)
    IN  IF Len(survivors) = 1
        THEN updateLogicState(R2, [phase |-> "gameOver", winnerId |-> Head(survivors).id])
        ELSE IF R2.logicState.activePlayerIndex = playerIdx
        THEN checkPhaseTransition(
                 [R2 EXCEPT !.logicState.activePlayerIndex =
                     getNextActivePlayerIndex(playerIdx, players2, 1)])
        ELSE R2

\* onMessage("surrender")
SurrenderMsg(c) ==
    /\ Handles(c)
    /\ LET playerIdx == FindIndex(logicState.players, c)
       IN  IF playerIdx = -1 THEN Commit(Room)
           ELSE IF logicState.phase = "lobby" THEN Commit(removePlayer(Room, c))
           ELSE IF ~At(logicState.players, playerIdx).isEliminated
                THEN Commit(Surrender(Room, c, playerIdx))
           ELSE Commit(Room)
    /\ lastEvent' = Event("surrender", logicState' # logicState)
    /\ intentsLeft' = intentsLeft - 1
    /\ UNCHANGED <<maxClients, disposed, connected, reconnecting, joins>>

\* Step 1 of onLeave: host migration.
MigrateHost(players, c) ==
    LET idx == FindIndex(players, c)
        players1 == [players EXCEPT ![idx + 1].isHost = FALSE]
        nextHost == FindFirst(players1,
                        LAMBDA p : p.id # c /\ ~p.isBot /\ p.isConnected)
        potentialHost == FindFirst(players1, LAMBDA p : p.id # c /\ ~p.isBot)
    IN  IF ~At(players, idx).isHost THEN players
        ELSE IF nextHost # -1 THEN [players1 EXCEPT ![nextHost + 1].isHost = TRUE]
        ELSE IF potentialHost # -1
             THEN [players1 EXCEPT ![potentialHost + 1].isHost = TRUE]
        ELSE players1

\* onLeave up to the await of allowReconnection.
OnLeave(c, consented) ==
    /\ Handles(c)
    /\ LET idx == FindIndex(logicState.players, c)
           R1 == [Room EXCEPT !.logicState.players = MigrateHost(@, c)]
       IN  IF idx = -1
           THEN Commit(Room) /\ UNCHANGED reconnecting
           ELSE IF consented
           THEN Commit(removePlayer(R1, c)) /\ UNCHANGED reconnecting
           ELSE /\ Commit([R1 EXCEPT !.logicState.players[idx + 1].isConnected = FALSE])
                /\ reconnecting' = reconnecting \cup {c}
    /\ connected' = connected \ {c}
    /\ lastEvent' = Event("leave", TRUE)
    /\ intentsLeft' = intentsLeft - 1
    /\ UNCHANGED <<maxClients, disposed, joins>>

\* allowReconnection resolves: the seat's client is back within the window.
Reconnect(c) ==
    /\ ~halted
    /\ intentsLeft > 0
    /\ c \in reconnecting
    /\ LET idx == FindIndex(logicState.players, c)
       IN  IF idx # -1
           THEN Commit([Room EXCEPT !.logicState.players[idx + 1].isConnected = TRUE])
           ELSE Commit(Room)
    /\ reconnecting' = reconnecting \ {c}
    /\ connected' = connected \cup {c}
    /\ lastEvent' = Event("reconnect", TRUE)
    /\ intentsLeft' = intentsLeft - 1
    /\ UNCHANGED <<maxClients, disposed, joins>>

\* allowReconnection rejects: the window elapsed.
GraceExpire(c) ==
    /\ ~halted
    /\ c \in reconnecting
    /\ Commit(removePlayer(Room, c))
    /\ reconnecting' = reconnecting \ {c}
    /\ lastEvent' = Event("grace", TRUE)
    /\ UNCHANGED <<maxClients, disposed, connected, joins, intentsLeft>>

\* One firing of the setInterval callback of startTurnTimer.
Tick ==
    /\ ~halted
    /\ turnTimerInterval
    /\ IF logicState.turnTimer <= 0
       THEN /\ \E r \in Rand :
                   Commit(handleTurnTimeout([Room EXCEPT !.turnTimerInterval = FALSE], r))
            /\ lastEvent' = Event("timeout", logicState' # logicState)
       ELSE /\ Commit([Room EXCEPT !.logicState.turnTimer = @ - 1])
            /\ lastEvent' = Event("tick", TRUE)
    /\ UNCHANGED <<maxClients, disposed, connected, reconnecting, joins, intentsLeft>>

\* The callback scheduled by checkPhaseTransition after POST_TRICK_PAUSE.
\* resolveTrick throws on an empty trick; the error leaves the timer callback
\* and either ends the process or is swallowed by the host.
TrickTimeout ==
    /\ ~halted
    /\ trickTimeouts > 0
    /\ LET R0 == [Room EXCEPT !.trickTimeouts = @ - 1]
           R1 == updateLogicState(R0, resolveTrickState(R0.logicState))
       IN  IF logicState.currentTrick = <<>>
           THEN \E crash \in BOOLEAN : Commit([R0 EXCEPT !.halted = crash])
           ELSE IF R1.logicState.phase = "scoring"
           THEN Commit([updateLogicState(R1, applyScores(R1.logicState))
                           EXCEPT !.roundTimeouts = @ + 1])
           ELSE Commit(startTurnTimer(R1))
    /\ lastEvent' = Event("trick", TRUE)
    /\ UNCHANGED <<maxClients, disposed, connected, reconnecting, joins, intentsLeft>>

\* The callback scheduled for 5 s after scoring.
RoundTimeout ==
    /\ ~halted
    /\ roundTimeouts > 0
    /\ logicState.phase = "gameOver" \/ logicState.currentRound < MaxRound
    /\ LET R0 == [Room EXCEPT !.roundTimeouts = @ - 1]
       IN  IF logicState.phase # "gameOver"
           THEN \E r \in Rand : Commit(advanceRound(R0, r))
           ELSE Commit(R0)
    /\ lastEvent' = Event("round", TRUE)
    /\ UNCHANGED <<maxClients, disposed, connected, reconnecting, joins, intentsLeft>>

\* Teardown of the session.  The framework disposes of the room once the last
\* client has left and no reconnection is awaited, and clears the room's
\* clock, which holds the callbacks of clock.setTimeout.  The class defines no
\* onDispose: the interval of startTurnTimer is a plain setInterval and nothing
\* clears it.
Dispose ==
    /\ ~disposed
    /\ joins > 0
    /\ connected = {}
    /\ reconnecting = {}
    /\ disposed' = TRUE
    /\ trickTimeouts' = 0
    /\ roundTimeouts' = 0
    /\ lastEvent' = Event("dispose", TRUE)
    /\ UNCHANGED <<logicState, maxClients, locked, turnTimerInterval, connected,
                   reconnecting, joins, intentsLeft, halted>>

Clients == 1..MaxJoins

Next ==
    \/ OnJoin
    \/ \E c \in Clients : StartGameMsg(c)
    \/ \E c \in Clients : \E v \in PredictionInputs : PredictMsg(c, v)
    \/ \E c \in Clients : \E i \in CardIndexInputs(c) : PlayCardMsg(c, i)
    \/ \E c \in Clients : SurrenderMsg(c)
    \/ \E c \in Clients : \E consented \in BOOLEAN : OnLeave(c, consented)
    \/ \E c \in Clients : Reconnect(c)
    \/ \E c \in Clients : GraceExpire(c)
    \/ Tick
    \/ TrickTimeout
    \/ RoundTimeout
    \/ Dispose

Spec == Init /\ [][Next]_vars

\* Timers fire: setInterval, clock.setTimeout and the reconnection window are
\* served by the event loop as long as the process runs.
Fairness ==
    /\ WF_vars(Tick)
    /\ WF_vars(TrickTimeout)
    /\ WF_vars(RoundTimeout)
    /\ \A c \in Clients : WF_vars(GraceExpire(c))

FairSpec == Spec /\ Fairness

\* Participants that stay connected and only start, predict and surrender;
\* every card is played by the turn timer.
InitSeated == InitRoom /\ intentsLeft = MaxSeatedIntents

NextSeated ==
    \/ OnJoin
    \/ \E c \in Clients : StartGameMsg(c)
    \/ \E c \in Clients : \E v \in PredictionInputs : PredictMsg(c, v)
    \/ \E c \in Clients : SurrenderMsg(c)
    \/ Tick
    \/ TrickTimeout
    \/ RoundTimeout

SpecSeated == InitSeated /\ [][NextSeated]_vars

\* Participants that join, start the match, leave and come back, until the
\* session is torn down; every prediction and card comes from the turn timer.
InitTeardown == InitRoom /\ intentsLeft = MaxTeardownIntents

NextTeardown ==
    \/ OnJoin
    \/ \E c \in Clients : StartGameMsg(c)
    \/ \E c \in Clients : \E consented \in BOOLEAN : OnLeave(c, consented)
    \/ \E c \in Clients : Reconnect(c)
    \/ \E c \in Clients : GraceExpire(c)
    \/ Tick
    \/ TrickTimeout
    \/ RoundTimeout
    \/ Dispose

SpecTeardown == InitTeardown /\ [][NextTeardown]_vars

TypeOK ==
    /\ logicState.phase \in
           {"lobby", "predicting", "playing", "trickResolve", "scoring", "gameOver"}
    /\ Len(logicState.players) <= MaxJoins
    /\ logicState.turnTimer \in 0..TURN_TIMER_SECONDS

\* --------------------------------------------------------------------- claims

Phase == logicState.phase
Players == logicState.players
Seats == 1..Len(Players)
Alive == {k \in Seats : ~Players[k].isEliminated}

\* Sum of the predictions held by the non-eliminated seats.
ActivePredictionSum(players) ==
    PredictionSum(SelectSeq(players, LAMBDA p : ~p.isEliminated))

\* C1: sandwich rule.  Whenever phase goes from predicting to playing, the
\* predictions of the non-eliminated seats do not sum to cardsThisRound, in
\* every round, also after a seat was eliminated or surrendered.
C1_SandwichRule ==
    [][(logicState.phase = "predicting" /\ logicState'.phase = "playing")
          => ActivePredictionSum(logicState'.players) # logicState'.cardsThisRound]_vars

\* C2: validate-then-apply.  A predict or play_card intent sent in the wrong
\* phase, by a seat that is not activePlayerIndex, with a prediction out of
\* range or (for the dealer) making the recorded predictions sum to
\* cardsThisRound, or with a card index outside the sender's hand, leaves
\* every field of the GameState unchanged, and the pending turn timer and
\* continuations untouched.
PredictIllegal(c, v) ==
    LET idx == FindIndex(Players, c)
    IN  \/ idx = -1
        \/ Phase # "predicting"
        \/ logicState.activePlayerIndex # idx
        \/ v < 0
        \/ v > logicState.cardsThisRound
        \/ (idx = logicState.dealerIndex
               /\ PredictionSum(Players) + v = logicState.cardsThisRound)

PlayIllegal(c, i) ==
    LET idx == FindIndex(Players, c)
    IN  \/ idx = -1
        \/ Phase # "playing"
        \/ logicState.activePlayerIndex # idx
        \/ i < 0
        \/ i >= Len(At(Players, idx).hand)

RoomUntouched ==
    UNCHANGED <<logicState, turnTimerInterval, trickTimeouts, roundTimeouts,
                locked, halted>>

MatchEnded ==
    \/ disposed
    \/ Phase = "gameOver"
    \/ (Phase = "scoring" /\ logicState.currentRound = MaxRound)

\* C3: the match is never blocked on an absent player.  From a state with
\* phase predicting or playing after which no participant sends anything,
\* with the timers firing, the match eventually reaches gameOver (or the
\* scoring of the last round the model follows).
C3_NeverBlocked ==
    (intentsLeft = 0 /\ ~halted /\ Phase \in {"predicting", "playing"}) ~> MatchEnded

\* C4: when the turn timer reaches zero in predicting or playing, the
\* prediction or card index produced for the active seat is accepted by
\* makePrediction / playCard.
C4_AutoMoveLegal ==
    [][(Tick /\ logicState.turnTimer <= 0)
          => LET api == logicState.activePlayerIndex
             IN  /\ Phase = "predicting"
                        => makePrediction(logicState, api, 0).success
                 /\ Phase = "playing"
                        => \A r \in Rand :
                               playCard(logicState, api,
                                   RandomChoice(getValidMoves(At(Players, api).hand), r)).success]_vars

\* C5: while a seat has to act (phase predicting or playing),
\* activePlayerIndex is the index of an existing, non-eliminated player, and
\* it is the sentinel -1 only while phase is trickResolve.
C5_ActivePlayerValid ==
    LET api == logicState.activePlayerIndex
    IN  /\ Phase \in {"predicting", "playing"}
               => (api \in 0..(Len(Players) - 1) /\ ~At(Players, api).isEliminated)
        /\ Phase \in {"predicting", "playing", "scoring"} => api # -1

\* Cards of seat k in the current trick.
CardsInTrick(k) ==
    Cardinality({j \in 1..Len(logicState.currentTrick) :
                    logicState.currentTrick[j].playerId = Players[k].id})

\* C6: while a trick is played (phase playing or trickResolve),
\* currentTrick.length is at most the number of non-eliminated players, and
\* the trick is declared complete (phase trickResolve) exactly when every
\* non-eliminated seat has one card in it.
C6_TrickBound ==
    /\ Phase \in {"playing", "trickResolve"}
           => Len(logicState.currentTrick) <= ActiveCount(Players)
    /\ Phase = "trickResolve" => \A k \in Alive : CardsInTrick(k) = 1
    /\ Phase = "playing" => \E k \in Alive : CardsInTrick(k) # 1

\* C7: while the match is active, dealerIndex is the index of a seat and that
\* seat is not eliminated.
C7_DealerValid ==
    Phase \in {"predicting", "playing", "trickResolve", "scoring"}
        => /\ logicState.dealerIndex \in 0..(Len(Players) - 1)
           /\ ~At(Players, logicState.dealerIndex).isEliminated

RECURSIVE TricksWonSum(_)
TricksWonSum(players) ==
    IF players = <<>> THEN 0
    ELSE Head(players).tricksWon + TricksWonSum(Tail(players))

\* C8: when scoring is reached, the tricksWon of all seats, eliminated ones
\* included, sum to cardsThisRound.
C8_TricksSum ==
    Phase = "scoring" => TricksWonSum(Players) = logicState.cardsThisRound

\* C9: gameOver is terminal.  Once phase is gameOver no event changes phase,
\* winnerId, or any player's lives or elimination flag.
C9_GameOverTerminal ==
    [][Phase = "gameOver"
          => /\ logicState'.phase = "gameOver"
             /\ logicState'.winnerId = logicState.winnerId
             /\ Len(logicState'.players) = Len(Players)
             /\ \A k \in Seats :
                    /\ logicState'.players[k].lives = Players[k].lives
                    /\ logicState'.players[k].isEliminated = Players[k].isEliminated]_vars

\* C10: a start_game message changes the state only if the sender is the
\* host, at least 2 seats are seated and the match has not started (phase
\* lobby, room not locked); otherwise it leaves the state unchanged.
StartAllowed(c) ==
    LET idx == FindIndex(Players, c)
    IN  /\ idx # -1
        /\ At(Players, idx).isHost
        /\ Len(Players) >= 2
        /\ Phase = "lobby"
        /\ ~locked

C10_StartGameGuard ==
    [][\A c \in Clients : (StartGameMsg(c) /\ ~StartAllowed(c)) => RoomUntouched]_vars

\* C11: no stale callback acts on state it no longer matches.  The
\* trick-resolution continuation changes the state only when phase is still
\* trickResolve with a non-empty trick, and the round-advance continuation
\* only when phase is still scoring.
C11_NoStaleCallback ==
    [][/\ TrickTimeout
              => \/ (Phase = "trickResolve" /\ logicState.currentTrick # <<>>)
                 \/ UNCHANGED logicState
       /\ RoundTimeout => (Phase = "scoring" \/ UNCHANGED logicState)]_vars

\* C12: no turn countdown stays armed while phase is trickResolve, scoring or
\* gameOver.
C12_CountdownOnlyInTurns ==
    Phase \in {"trickResolve", "scoring", "gameOver"} => ~turnTimerInterval

\* C13: after the session is torn down, none of its scheduled continuations
\* fires or changes the state again.
C13_TornDownSilent ==
    [][disposed => UNCHANGED <<logicState, turnTimerInterval, trickTimeouts,
                               roundTimeouts>>]_vars

\* C14: when the active seat disconnects without consent in predicting or
\* playing, the same update moves activePlayerIndex to another seat.
C14_DisconnectAdvances ==
    [][\A c \in Clients :
          (/\ OnLeave(c, FALSE)
           /\ Phase \in {"predicting", "playing"}
           /\ FindIndex(Players, c) = logicState.activePlayerIndex)
              => logicState'.activePlayerIndex # logicState.activePlayerIndex]_vars

\* What the claim lists of a seat: position, hand, lives, prediction, tricksWon
\* (and its elimination flag).
SeatFields(p) ==
    <<p.id, p.seatIndex, p.hand, p.handSize, p.lives, p.prediction, p.tricksWon,
      p.isEliminated>>

\* The step changes nothing of the match but isConnected and isHost flags.
MatchUnchanged ==
    /\ Len(logicState'.players) = Len(Players)
    /\ \A k \in Seats : SeatFields(logicState'.players[k]) = SeatFields(Players[k])
    /\ [logicState' EXCEPT !.players = <<>>] = [logicState EXCEPT !.players = <<>>]

\* C15: grace-period race.  An unconsented disconnect and the reconnection
\* within the window change no field of the match other than isConnected
\* (and the host flag), and the reconnection restores isConnected; when the
\* window elapses first the seat is removed from the roster if phase is
\* lobby, and otherwise stays in place with isConnected = false and its hand.
C15_GraceRace ==
    [][\A c \in Clients :
          LET idx == FindIndex(Players, c)
          IN  /\ OnLeave(c, FALSE) => MatchUnchanged
              /\ Reconnect(c)
                     => /\ MatchUnchanged
                        /\ idx # -1
                        /\ logicState'.players[idx + 1].isConnected
                        /\ \A k \in Seats \ {idx + 1} :
                               logicState'.players[k].isConnected = Players[k].isConnected
              /\ GraceExpire(c)
                     => IF Phase = "lobby"
                        THEN /\ FindIndex(logicState'.players, c) = -1
                             /\ logicState'.players = SelectSeq(Players, LAMBDA p : p.id # c)
                        ELSE /\ MatchUnchanged
                             /\ idx # -1
                             /\ ~logicState'.players[idx + 1].isConnected]_vars

\* The window of a seat that disconnected in the lobby elapsed after the match
\* had started: the seat is still in the roster, disconnected, with its hand.
C15_Witness ==
    /\ lastEvent = Event("grace", TRUE)
    /\ Phase \in {"predicting", "playing"}
    /\ \E k \in Seats : ~Players[k].isConnected /\ Players[k].hand # <<>>

\* The seat that takes over from the leaving host c: the first other
\* connected non-bot seat in roster order, else the first other non-bot seat;
\* 0 when there is none.
HostSuccessor(c) ==
    LET others == {k \in Seats : Players[k].id # c /\ ~Players[k].isBot}
        live == {k \in others : Players[k].isConnected}
        first(S) == CHOOSE k \in S : \A m \in S : k <= m
    IN  IF live # {} THEN first(live)
        ELSE IF others # {} THEN first(others)
        ELSE 0

\* The host c disconnects, leaves, or leaves the lobby by a surrender.
HostLeaves(c) ==
    /\ FindIndex(Players, c) # -1
    /\ At(Players, FindIndex(Players, c)).isHost
    /\ \/ OnLeave(c, TRUE)
       \/ OnLeave(c, FALSE)
       \/ (SurrenderMsg(c) /\ Phase = "lobby")

\* C16: host migration.  When the host seat disconnects or leaves, the same
\* update clears isHost on it and sets it on the first remaining connected
\* non-bot seat in roster order, or on the first remaining non-bot seat if
\* none is connected; a former host that reconnects keeps isHost = false.
C16_HostMigration ==
    [][\A c \in Clients :
          /\ HostLeaves(c)
                 => /\ \A k \in 1..Len(logicState'.players) :
                           logicState'.players[k].id = c
                               => ~logicState'.players[k].isHost
                    /\ HostSuccessor(c) # 0
                           => \E k \in 1..Len(logicState'.players) :
                                  /\ logicState'.players[k].id = Players[HostSuccessor(c)].id
                                  /\ logicState'.players[k].isHost
          /\ (Reconnect(c) /\ FindIndex(Players, c) # -1)
                 => logicState'.players[FindIndex(Players, c) + 1].isHost
                        = At(Players, FindIndex(Players, c)).isHost]_vars

\* The seat at 0-based index i still has to act: to predict in predicting, to
\* put its card in the current trick in playing.
StillHasToAct(state, i) ==
    LET p == At(state.players, i)
    IN  /\ ~p.isEliminated
        /\ state.phase = "predicting" => p.prediction = -1
        /\ state.phase = "playing"
               => \A j \in 1..Len(state.currentTrick) :
                      state.currentTrick[j].playerId # p.id

\* C17: surrender of a non-eliminated seat during a match sets its lives to
\* 0, eliminates it and empties its hand; with one survivor left phase
\* becomes gameOver with that survivor as winnerId; otherwise, if the seat was
\* the active seat, activePlayerIndex moves to the next non-eliminated seat
\* that still has to act in the prediction order or trick.
C17_Surrender ==
    [][\A c \in Clients :
          LET idx == FindIndex(Players, c)
              next == logicState'.activePlayerIndex
              survivors == {k \in 1..Len(logicState'.players) :
                               ~logicState'.players[k].isEliminated}
          IN  (/\ SurrenderMsg(c)
               /\ idx # -1
               /\ Phase \in {"predicting", "playing"}
               /\ ~At(Players, idx).isEliminated)
                  => /\ logicState'.players[idx + 1].lives = 0
                     /\ logicState'.players[idx + 1].isEliminated
                     /\ logicState'.players[idx + 1].hand = <<>>
                     /\ logicState'.players[idx + 1].handSize = 0
                     /\ Cardinality(survivors) = 1
                            => /\ logicState'.phase = "gameOver"
                               /\ \A k \in survivors :
                                      logicState'.winnerId = logicState'.players[k].id
                     /\ (Cardinality(survivors) > 1 /\ logicState.activePlayerIndex = idx)
                            => /\ next \in 0..(Len(Players) - 1)
                               /\ StillHasToAct(logicState', next)]_vars

\* C18: solo bootstrap.  A start_game of the host with exactly one seat in the
\* lobby adds one computer-controlled seat and starts the match: phase
\* predicting with two seats dealt.
C18_SoloBootstrap ==
    [][\A c \in Clients :
          (/\ StartGameMsg(c)
           /\ Phase = "lobby"
           /\ Len(Players) = 1
           /\ FindIndex(Players, c) = 0
           /\ Players[1].isHost)
              => /\ logicState'.phase = "predicting"
                 /\ Len(logicState'.players) = 2
                 /\ logicState'.players[2].isBot
                 /\ \A k \in 1..2 : logicState'.players[k].hand # <<>>]_vars

RosterIds(state) == [k \in 1..Len(state.players) |-> state.players[k].id]

\* C19: whatever the creation options, the seat ceiling is a number between
\* 2 and 8 and the roster never holds more seats than the ceiling; a match
\* that has started has a locked roster, and in a locked session no step
\* (join, leave, disconnect, surrender, timer) adds, removes or reorders a seat.
C19_RosterCeiling ==
    /\ [](/\ maxClients.numeric
          /\ maxClients.value >= 2
          /\ maxClients.value <= 8
          /\ Len(Players) <= maxClients.value
          /\ (Phase # "lobby" => locked))
    /\ [][locked => (~OnJoin /\ RosterIds(logicState') = RosterIds(logicState))]_vars

\* The states that differ from the current one only in the contents of the
\* hand of seat k (same number of cards).
HandVariants(k) ==
    {[logicState EXCEPT !.players[k].hand[1] = createDeck[d]] : d \in 1..40}

\* C20: hand privacy.  What is published to a participant does not depend
\* on the contents of another seat's hand: replacing the cards of another
\* seat's hand by other cards, the hand size kept, leaves the snapshot
\* published to the participant the same.
C20_HandPrivacy ==
    \A v \in Seats : \A k \in Seats :
        (k # v /\ Players[k].hand # <<>>) =>
            \A other \in HandVariants(k) :
                PublishedTo(other, Players[v].id) = PublishedTo(logicState, Players[v].id)

\* ------------------------------------------------- engine functions, alone
\* applyScores applied once to a state of phase scoring with 2..MaxScoreSeats
\* seats whose lives, prediction, tricksWon and isEliminated are drawn from
\* small sets.
MaxScoreSeats == 3

ScoreSeatInputs ==
    [lives : {1, 2}, prediction : {-1, 0, 2}, tricksWon : {0, 1, 3},
     isEliminated : BOOLEAN]

ScorePlayer(k, in) ==
    [id |-> k,
     lives |-> IF in.isEliminated THEN in.lives - 2 ELSE in.lives,
     hand |-> <<>>,
     handSize |-> 0,
     isEliminated |-> in.isEliminated,
     isConnected |-> TRUE,
     prediction |-> in.prediction,
     tricksWon |-> in.tricksWon,
     seatIndex |-> k - 1,
     isBot |-> FALSE,
     isHost |-> (k = 1)]

ScoreState(ins) ==
    [phase |-> "scoring",
     players |-> [k \in 1..Len(ins) |-> ScorePlayer(k, ins[k])],
     currentRound |-> 1,
     cardsThisRound |-> 5,
     dealerIndex |-> 0,
     activePlayerIndex |-> -1,
     currentTrick |-> <<>>,
     trickNumber |-> 5,
     winnerId |-> NULL,
     turnTimer |-> 0]

\* No room around the engine: the other variables keep one value.
EngineIdle ==
    /\ maxClients = Num(MAX_PLAYERS)
    /\ locked = FALSE
    /\ turnTimerInterval = FALSE
    /\ trickTimeouts = 0
    /\ roundTimeouts = 0
    /\ connected = {}
    /\ reconnecting = {}
    /\ joins = 0
    /\ intentsLeft = 0
    /\ halted = FALSE
    /\ disposed = FALSE

EngineInit == EngineIdle /\ lastEvent = Event("create", TRUE)

InitScores ==
    /\ EngineInit
    /\ \E n \in 2..MaxScoreSeats : \E ins \in [1..n -> ScoreSeatInputs] :
           logicState = ScoreState(ins)

EngineFrame ==
    UNCHANGED <<maxClients, locked, turnTimerInterval, trickTimeouts, roundTimeouts,
                connected, reconnecting, joins, intentsLeft, halted, disposed>>

ApplyScores ==
    /\ lastEvent = Event("create", TRUE)
    /\ logicState' = Merge(logicState, applyScores(logicState))
    /\ lastEvent' = Event("applyScores", TRUE)
    /\ EngineFrame

NextScores == ApplyScores

SpecScores == InitScores /\ [][NextScores]_vars

\* C21: applyScores takes |prediction - tricksWon| lives from every
\* non-eliminated player and none from an eliminated one; then, with more
\* than one non-eliminated player left the phase is scoring, and with at
\* most one left the phase is gameOver and winnerId is the survivor's id, or
\* null when nobody survives.
C21_ApplyScores ==
    [][ApplyScores =>
        LET after == logicState'.players
            left == {k \in 1..Len(after) : ~after[k].isEliminated}
        IN  /\ Len(after) = Len(Players)
            /\ \A k \in Seats :
                   after[k].lives =
                       IF Players[k].isEliminated THEN Players[k].lives
                       ELSE Players[k].lives
                                - Abs(Players[k].prediction - Players[k].tricksWon)
            /\ IF Cardinality(left) > 1
               THEN logicState'.phase = "scoring"
               ELSE /\ logicState'.phase = "gameOver"
                    /\ logicState'.winnerId =
                           IF left = {} THEN NULL
                           ELSE after[CHOOSE k \in left : TRUE].id]_vars

\* applyScores has ended a match in a full draw: nobody survives.
C21_Witness ==
    /\ lastEvent = Event("applyScores", TRUE)
    /\ Phase = "gameOver"
    /\ logicState.winnerId = NULL
    /\ Alive = {}
    /\ \E k \in Seats : Players[k].lives < 0

\* The state the trick continuation hands to applyScores, when it does.
ScoringInput == Merge(logicState, resolveTrickState(logicState))

AppliesScores ==
    /\ TrickTimeout
    /\ logicState.currentTrick # <<>>
    /\ ScoringInput.phase = "scoring"

AdjustedLives(p) == p.lives - Abs(p.prediction - p.tricksWon)

\* C22: when applyScores is given a state in which no seat's adjusted lives
\* is <= 0, it changes nothing but the lives of the non-eliminated players:
\* no isEliminated flag, and none of phase, winnerId, dealerIndex,
\* activePlayerIndex, hands, predictions, tricksWon, currentRound and
\* trickNumber.
C22_ScoresFrame ==
    [][(/\ AppliesScores
        /\ \A k \in 1..Len(ScoringInput.players) :
               ScoringInput.players[k].isEliminated
                   \/ AdjustedLives(ScoringInput.players[k]) > 0)
       => /\ logicState' =
                 [ScoringInput EXCEPT
                     !.players =
                         [k \in 1..Len(ScoringInput.players) |->
                             [ScoringInput.players[k] EXCEPT
                                 !.lives = logicState'.players[k].lives]]]
          /\ \A k \in 1..Len(ScoringInput.players) :
                 ScoringInput.players[k].isEliminated =>
                     logicState'.players[k].lives = ScoringInput.players[k].lives]_vars

\* The seats that a step eliminates.
NewlyEliminated ==
    {k \in Seats : ~Players[k].isEliminated /\ logicState'.players[k].isEliminated}

\* C23: of the candidates, the non-eliminated seats whose new lives are <= 0,
\* a single one is eliminated; of several, those with the greatest lives stay
\* alive and the others are eliminated, unless all are tied, and then all are
\* eliminated; a seat with new lives > 0 is never eliminated.  Two seats that
\* both end at -1 beside an unaffected third are both eliminated.
C23_Eliminations ==
    [][ApplyScores =>
        LET candidates == {k \in Alive : AdjustedLives(Players[k]) <= 0}
            greatest ==
                {k \in candidates :
                    \A j \in candidates :
                        AdjustedLives(Players[j]) <= AdjustedLives(Players[k])}
        IN  /\ NewlyEliminated =
                   IF Cardinality(candidates) = 1 THEN candidates
                   ELSE IF greatest = candidates THEN candidates
                   ELSE candidates \ greatest
            /\ \A k \in Alive : AdjustedLives(Players[k]) > 0 => k \notin NewlyEliminated
            /\ \A a \in Alive : \A b \in Alive :
                   (/\ a # b
                    /\ AdjustedLives(Players[a]) = -1
                    /\ AdjustedLives(Players[b]) = -1
                    /\ \A c \in Alive \ {a, b} : AdjustedLives(Players[c]) > 0)
                   => {a, b} \subseteq NewlyEliminated]_vars

\* applyScores kept a seat alive at lives <= 0 beside a seat that it
\* eliminated at fewer lives.
C23_Witness ==
    /\ lastEvent = Event("applyScores", TRUE)
    /\ \E a \in Seats : \E b \in Seats :
           /\ ~Players[a].isEliminated
           /\ Players[a].lives <= 0
           /\ Players[b].isEliminated
           /\ Players[b].lives <= -2
           /\ Players[b].lives < Players[a].lives

\* startNewRound applied once to a state of 2..MAX_PLAYERS seats, some of
\* them eliminated, after 0..MaxDealRound rounds.
MaxDealRound == 5

DealPlayer(k, eliminated) ==
    [id |-> k,
     lives |-> IF k \in eliminated THEN 0 ELSE STARTING_LIVES,
     hand |-> <<>>,
     handSize |-> 0,
     isEliminated |-> (k \in eliminated),
     isConnected |-> TRUE,
     prediction |-> -1,
     tricksWon |-> 0,
     seatIndex |-> k - 1,
     isBot |-> FALSE,
     isHost |-> (k = 1)]

DealState(n, eliminated, round, dealer) ==
    [phase |-> IF round = 0 THEN "lobby" ELSE "scoring",
     players |-> [k \in 1..n |-> DealPlayer(k, eliminated)],
     currentRound |-> round,
     cardsThisRound |-> IF round = 0 THEN 0 ELSE getCardsForRound(round),
     dealerIndex |-> dealer,
     activePlayerIndex |-> 0,
     currentTrick |-> <<>>,
     trickNumber |-> 1,
     winnerId |-> NULL,
     turnTimer |-> TURN_TIMER_SECONDS]

InitDeal ==
    /\ EngineInit
    /\ \E n \in 2..MAX_PLAYERS : \E eliminated \in SUBSET (1..n) :
       \E round \in 0..MaxDealRound : \E dealer \in {0, n - 1} :
           logicState = DealState(n, eliminated, round, dealer)

StartNewRound ==
    /\ lastEvent = Event("create", TRUE)
    /\ \E r \in Rand : logicState' = Merge(logicState, startNewRound(logicState, r))
    /\ lastEvent' = Event("startNewRound", TRUE)
    /\ EngineFrame

NextDeal == StartNewRound

SpecDeal == InitDeal /\ [][NextDeal]_vars

RECURSIVE Concat(_)
Concat(seqs) == IF seqs = <<>> THEN <<>> ELSE Head(seqs) \o Concat(Tail(seqs))

Range(seq) == {seq[k] : k \in 1..Len(seq)}

\* C24: the deck has 40 cards of pairwise distinct ids; the hands dealt and
\* the remainder are together the cards of the deck, none twice and none
\* lost; and after startNewRound with 2 to 8 seats every non-eliminated seat
\* holds cardsThisRound = [5,4,3,2,1][(currentRound - 1) mod 5] cards, the
\* cards dealt are pairwise distinct, and 8 seats at 5 cards take the whole
\* deck.
C24_Dealing ==
    /\ [](/\ Len(createDeck) = 40
          /\ Cardinality({CardId(c) : c \in Range(createDeck)}) = 40)
    /\ [][StartNewRound =>
            LET after == logicState'
                cards == <<5, 4, 3, 2, 1>>[((after.currentRound - 1) % 5) + 1]
                dealtSeats == {k \in Seats : ~Players[k].isEliminated}
                dealt == UNION {Range(after.players[k].hand) : k \in dealtSeats}
            IN  /\ after.cardsThisRound = cards
                /\ \A k \in dealtSeats :
                       /\ Len(after.players[k].hand) = cards
                       /\ after.players[k].handSize = cards
                /\ Cardinality({CardId(c) : c \in dealt}) = cards * Cardinality(dealtSeats)
                /\ dealt \subseteq Range(createDeck)
                /\ (Cardinality(dealtSeats) = 8 /\ cards = 5) => dealt = Range(createDeck)
                /\ \A r \in Rand :
                       LET deck == shuffleDeck(createDeck, r)
                           d == dealCards(deck, Cardinality(dealtSeats), cards)
                       IN  /\ Len(d.hands) = Cardinality(dealtSeats)
                           /\ Len(Concat(d.hands) \o d.remaining) = 40
                           /\ Range(Concat(d.hands) \o d.remaining) = Range(createDeck)
                           /\ Range(deck) = Range(createDeck)]_vars

\* startNewRound dealt 5 cards to each of 8 seats: the 40 cards of the deck.
C24_Witness ==
    /\ lastEvent = Event("startNewRound", TRUE)
    /\ Len(Players) = 8
    /\ Alive = Seats
    /\ logicState.cardsThisRound = 5
    /\ logicState.currentRound = 6
    /\ \A k \in Seats : Len(Players[k].hand) = 5

\* C25: in every reachable state, every player, eliminated or not, has
\* handSize = hand.length.
C25_HandSize ==
    \A k \in Seats : Players[k].handSize = Len(Players[k].hand)

\* A match in which one seat has played a card of its hand and another seat
\* has surrendered its hand.
C25_Witness ==
    /\ Len(Players) = 3
    /\ \E a \in Seats : \E b \in Seats :
           /\ Players[a].isEliminated
           /\ Players[a].hand = <<>>
           /\ ~Players[b].isEliminated
           /\ Players[b].hand # <<>>
           /\ Len(Players[b].hand) < logicState.cardsThisRound

\* C26: in every reachable state, every player, eliminated or not, has a
\* prediction that is -1 or within 0..cardsThisRound and a tricksWon within
\* 0..cardsThisRound, for the cardsThisRound of the current round.
C26_PredictionRange ==
    \A k \in Seats :
        /\ Players[k].prediction = -1
               \/ (Players[k].prediction >= 0
                      /\ Players[k].prediction <= logicState.cardsThisRound)
        /\ Players[k].tricksWon >= 0
        /\ Players[k].tricksWon <= logicState.cardsThisRound

\* validatePrediction and getDealerForbiddenPrediction applied once to
\* arguments drawn from small sets; lastEvent records the call.
MaxPredictionSum == 7

LobbyState ==
    [phase |-> "lobby",
     players |-> <<>>,
     currentRound |-> 0,
     cardsThisRound |-> 0,
     dealerIndex |-> -1,
     activePlayerIndex |-> 0,
     currentTrick |-> <<>>,
     trickNumber |-> 1,
     winnerId |-> NULL,
     turnTimer |-> TURN_TIMER_SECONDS]

ValidateCall(kind, prediction, cardsThisRound, isDealer, currentPredictionSum, valid, forbidden) ==
    [kind |-> kind,
     prediction |-> prediction,
     cardsThisRound |-> cardsThisRound,
     isDealer |-> isDealer,
     currentPredictionSum |-> currentPredictionSum,
     valid |-> valid,
     forbidden |-> forbidden]

InitValidate ==
    /\ EngineIdle
    /\ logicState = LobbyState
    /\ \E v \in -2..MaxPredictionSum : \E c \in 1..5 : \E d \in BOOLEAN :
       \E s \in 0..MaxPredictionSum :
           lastEvent = ValidateCall("arguments", v, c, d, s, FALSE, -1)

ValidatePrediction ==
    /\ lastEvent.kind = "arguments"
    /\ lastEvent' =
           ValidateCall("validatePrediction",
                        lastEvent.prediction, lastEvent.cardsThisRound,
                        lastEvent.isDealer, lastEvent.currentPredictionSum,
                        validatePrediction(lastEvent.prediction, lastEvent.cardsThisRound,
                                           lastEvent.isDealer, lastEvent.currentPredictionSum),
                        getDealerForbiddenPrediction(lastEvent.cardsThisRound,
                                                     lastEvent.currentPredictionSum))
    /\ UNCHANGED logicState
    /\ EngineFrame

NextValidate == ValidatePrediction

SpecValidate == InitValidate /\ [][NextValidate]_vars

\* C27: for the last predictor validatePrediction rejects v exactly when
\* v < 0, v > c or v = c - s, and for any other seat exactly when v < 0 or
\* v > c; getDealerForbiddenPrediction is c - s when that lies in 0..c and -1
\* otherwise; so of the values 0..c the last predictor is refused the
\* forbidden one alone, when there is one, and any other seat none.
C27_ValidatePrediction ==
    lastEvent.kind = "validatePrediction" =>
        LET v == lastEvent.prediction
            c == lastEvent.cardsThisRound
            s == lastEvent.currentPredictionSum
            refused(d) == {x \in 0..c : ~validatePrediction(x, c, d, s)}
        IN  /\ lastEvent.isDealer => (~lastEvent.valid <=> (v < 0 \/ v > c \/ v = c - s))
            /\ ~lastEvent.isDealer => (~lastEvent.valid <=> (v < 0 \/ v > c))
            /\ lastEvent.forbidden = IF 0 <= c - s /\ c - s <= c THEN c - s ELSE -1
            /\ refused(TRUE) = IF lastEvent.forbidden = -1 THEN {} ELSE {lastEvent.forbidden}
            /\ refused(FALSE) = {}

\* The last predictor is refused 1 when the others have declared 4 of 5.
C27_Witness ==
    /\ lastEvent.kind = "validatePrediction"
    /\ lastEvent.isDealer
    /\ lastEvent.prediction = 1
    /\ lastEvent.cardsThisRound = 5
    /\ lastEvent.currentPredictionSum = 4
    /\ ~lastEvent.valid
    /\ lastEvent.forbidden = 1

\* compareCards applied to the pairs of every three cards of the deck;
\* lastEvent records the cards and the results.
CompareCall(kind, a, b, c, ab, ba, bc, ac) ==
    [kind |-> kind, a |-> a, b |-> b, c |-> c,
     ab |-> ab, ba |-> ba, bc |-> bc, ac |-> ac]

InitCompare ==
    /\ EngineIdle
    /\ logicState = LobbyState
    /\ \E i \in 1..40 : \E j \in 1..40 : \E k \in 1..40 :
           lastEvent = CompareCall("arguments", createDeck[i], createDeck[j],
                                   createDeck[k], 0, 0, 0, 0)

CompareCards ==
    /\ lastEvent.kind = "arguments"
    /\ lastEvent' =
           CompareCall("compareCards", lastEvent.a, lastEvent.b, lastEvent.c,
                       compareCards(lastEvent.a, lastEvent.b),
                       compareCards(lastEvent.b, lastEvent.a),
                       compareCards(lastEvent.b, lastEvent.c),
                       compareCards(lastEvent.a, lastEvent.c))
    /\ UNCHANGED logicState
    /\ EngineFrame

NextCompare == CompareCards

SpecCompare == InitCompare /\ [][NextCompare]_vars

RankPosition(rank) ==
    CHOOSE i \in 1..10 : <<1, 2, 3, 4, 5, 6, 7, 10, 11, 12>>[i] = rank

SuitPosition(suit) ==
    CHOOSE i \in 1..4 : <<"oros", "copas", "espadas", "bastos">>[i] = suit

\* a is the greater card: later rank position, or the same rank and the
\* earlier suit of oros > copas > espadas > bastos.
Beats(a, b) ==
    \/ RankPosition(a.rank) > RankPosition(b.rank)
    \/ /\ a.rank = b.rank
       /\ SuitPosition(a.suit) < SuitPosition(b.suit)

\* C28: compareCards is a strict total order on the 40 cards: it is non-zero
\* on distinct cards, positive one way exactly when negative the other way,
\* transitive, and orders by rank position first and, on equal rank, by the
\* suit hierarchy.
C28_CompareCards ==
    lastEvent.kind = "compareCards" =>
        /\ lastEvent.a # lastEvent.b => lastEvent.ab # 0
        /\ lastEvent.a = lastEvent.b => lastEvent.ab = 0
        /\ lastEvent.ab > 0 <=> lastEvent.ba < 0
        /\ (lastEvent.ab > 0 /\ lastEvent.bc > 0) => lastEvent.ac > 0
        /\ lastEvent.ab > 0 <=> Beats(lastEvent.a, lastEvent.b)

\* Two distinct cards of the same rank were compared and the suit decided.
C28_Witness ==
    /\ lastEvent.kind = "compareCards"
    /\ lastEvent.a.rank = lastEvent.b.rank
    /\ lastEvent.a.suit = "copas"
    /\ lastEvent.b.suit = "bastos"
    /\ lastEvent.ab > 0
    /\ lastEvent.ba < 0

\* resolveTrick applied once to a trick of 0..MaxTrickCards distinct cards,
\* the card at position p played by seat p; lastEvent records the call.
MaxTrickCards == 3

TrickOf(cards) ==
    [p \in 1..Len(cards) |-> [playerId |-> p, card |-> createDeck[cards[p]]]]

TrickInputs ==
    UNION {{cards \in [1..n -> 1..40] :
                \A p \in 1..n : \A q \in 1..n : p # q => cards[p] # cards[q]} :
           n \in 0..MaxTrickCards}

InitTrick ==
    /\ EngineIdle
    /\ logicState = LobbyState
    /\ \E cards \in TrickInputs :
           lastEvent = [kind |-> "arguments", trick |-> TrickOf(cards),
                        threw |-> FALSE, value |-> <<>>]

ResolveTrick ==
    /\ lastEvent.kind = "arguments"
    /\ lastEvent' =
           [kind |-> "resolveTrick",
            trick |-> lastEvent.trick,
            threw |-> resolveTrickCall(lastEvent.trick).threw,
            value |-> resolveTrickCall(lastEvent.trick).value]
    /\ UNCHANGED logicState
    /\ EngineFrame

NextTrick == ResolveTrick

SpecTrick == InitTrick /\ [][NextTrick]_vars

Reverse(seq) == [k \in 1..Len(seq) |-> seq[Len(seq) + 1 - k]]

\* C29: for a non-empty trick of distinct cards resolveTrick returns the
\* played card that is greater under compareCards than every other card of
\* the trick, whatever the order of play, so that of two cards of the same
\* rank the one of the higher suit wins; for an empty trick it throws.
C29_ResolveTrick ==
    lastEvent.kind = "resolveTrick" =>
        IF lastEvent.trick = <<>>
        THEN lastEvent.threw /\ lastEvent.value = <<>>
        ELSE /\ ~lastEvent.threw
             /\ Len(lastEvent.value) = 1
             /\ LET winner == lastEvent.value[1]
                IN  /\ winner \in Range(lastEvent.trick)
                    /\ \A pc \in Range(lastEvent.trick) :
                           pc # winner => compareCards(winner.card, pc.card) > 0
                    /\ resolveTrickCall(Reverse(lastEvent.trick)).value = <<winner>>

\* Seat 2 took the trick with the 5 of oros over seat 1's 5 of espadas.
C29_Witness ==
    /\ lastEvent.kind = "resolveTrick"
    /\ Len(lastEvent.trick) = 2
    /\ lastEvent.trick[1].card = [suit |-> "espadas", rank |-> 5]
    /\ lastEvent.trick[2].card = [suit |-> "oros", rank |-> 5]
    /\ lastEvent.value = <<lastEvent.trick[2]>>

\* ------------------------------------------------------------ ai/BotLogic
Max(a, b) == IF a > b THEN a ELSE b

\* Math.round of a number given in tenths.
RoundTenths(x) == (x + 5) \div 10

CountRank(hand, rank) == Cardinality({k \in 1..Len(hand) : hand[k].rank = rank})

\* calculateBotPrediction.  estimatedTricks is kept in tenths; rnd holds the
\* outcome of the three Math.random() comparisons.
calculateBotPrediction(hand, cardsInRound, players, myIndex, difficulty, rnd) ==
    LET kings == CountRank(hand, 12)
        horses == CountRank(hand, 11)
        noisy == kings + (IF rnd.noise THEN 1 ELSE 0)
        handTenths ==
            IF difficulty = "easy"
            THEN 10 * (IF rnd.under THEN Max(0, noisy - 1) ELSE noisy)
            ELSE 10 * kings + 6 * horses
        others == {k \in 1..Len(players) : k - 1 # myIndex /\ players[k].prediction >= 0}
        knownBids == PredictionSum([k \in 1..Len(players) |->
                                       IF k \in others THEN players[k]
                                       ELSE [players[k] EXCEPT !.prediction = -1]])
        estimatedTricks ==
            IF difficulty # "hard" THEN handTenths
            ELSE IF knownBids > cardsInRound THEN handTenths - 4
            ELSE IF knownBids + RoundTenths(handTenths) < cardsInRound THEN handTenths + 3
            ELSE handTenths
        prediction == Max(0, Min(RoundTenths(estimatedTricks), cardsInRound))
        bidsCount == Cardinality(others)
        isLast == bidsCount = Len(players) - 1
        currentSum == PredictionSum(players)
        forbidden == cardsInRound - currentSum
        moved ==
            IF difficulty = "hard"
            THEN (IF estimatedTricks > 10 * prediction THEN prediction + 1 ELSE prediction - 1)
            ELSE (IF rnd.flip THEN prediction + 1 ELSE prediction - 1)
        raised == IF moved < 0 THEN 1 ELSE moved
        reclamped == IF raised > cardsInRound THEN cardsInRound - 1 ELSE raised
    IN  IF isLast /\ prediction = forbidden THEN reclamped ELSE prediction

\* calculateBotPrediction applied once for the active seat of a state of
\* phase predicting with 2..MaxBotSeats seats.  The other seats have declared
\* or not, or are eliminated and keep the prediction of the round in which
\* they were eliminated.
MaxBotSeats == 3

BotDifficulty == {"easy", "medium", "hard"}

BotRandom == [noise : BOOLEAN, under : BOOLEAN, flip : BOOLEAN]

\* A hand of cardsInRound cards with the given numbers of kings and horses.
BotHand(cardsInRound, kings, horses) ==
    [k \in 1..cardsInRound |->
        IF k <= kings THEN [suit |-> SUIT_HIERARCHY[k], rank |-> 12]
        ELSE IF k <= kings + horses THEN [suit |-> SUIT_HIERARCHY[k - kings], rank |-> 11]
        ELSE [suit |-> "bastos", rank |-> k]]

BotOtherSeats(cardsInRound) ==
    [isEliminated : {FALSE}, prediction : {-1, 0, 1, cardsInRound}]
        \cup [isEliminated : {TRUE}, prediction : {0, 2, 5}]

BotPlayer(k, seat, hand) ==
    [id |-> k,
     lives |-> IF seat.isEliminated THEN 0 ELSE STARTING_LIVES,
     hand |-> hand,
     handSize |-> Len(hand),
     isEliminated |-> seat.isEliminated,
     isConnected |-> TRUE,
     prediction |-> seat.prediction,
     tricksWon |-> 0,
     seatIndex |-> k - 1,
     isBot |-> TRUE,
     isHost |-> FALSE]

\* The dealer is the seat that predicts last: the deciding seat when every
\* other seat in play has declared, else a seat that has not declared yet.
BotDealers(seats, myIndex) ==
    LET waiting == {k \in DOMAIN seats :
                       k - 1 # myIndex /\ ~seats[k].isEliminated /\ seats[k].prediction = -1}
    IN  IF waiting = {} THEN {myIndex} ELSE {k - 1 : k \in waiting}

BotState(cardsInRound, seats, myIndex, dealer, hand) ==
    [phase |-> "predicting",
     players |-> [k \in DOMAIN seats |->
                     BotPlayer(k, seats[k], IF k - 1 = myIndex THEN hand ELSE <<>>)],
     currentRound |-> 6 - cardsInRound,
     cardsThisRound |-> cardsInRound,
     dealerIndex |-> dealer,
     activePlayerIndex |-> myIndex,
     currentTrick |-> <<>>,
     trickNumber |-> 1,
     winnerId |-> NULL,
     turnTimer |-> TURN_TIMER_SECONDS]

InitBot ==
    /\ EngineIdle
    /\ \E n \in 2..MaxBotSeats : \E myIndex \in 0..(n - 1) : \E c \in 1..5 :
       \E kings \in 0..2 : \E horses \in 0..2 :
       \E others \in [1..n -> BotOtherSeats(c)] :
           LET seats == [others EXCEPT ![myIndex + 1] =
                            [isEliminated |-> FALSE, prediction |-> -1]]
           IN  /\ kings + horses <= c
               /\ others[myIndex + 1] = [isEliminated |-> FALSE, prediction |-> -1]
               /\ \E k \in 1..n : k - 1 # myIndex /\ ~seats[k].isEliminated
               /\ \E dealer \in BotDealers(seats, myIndex) :
                      logicState = BotState(c, seats, myIndex, dealer,
                                            BotHand(c, kings, horses))
    /\ \E difficulty \in BotDifficulty : \E rnd \in BotRandom :
           lastEvent = [kind |-> "arguments", difficulty |-> difficulty,
                        rnd |-> rnd, prediction |-> -1]

CalculateBotPrediction ==
    /\ lastEvent.kind = "arguments"
    /\ lastEvent' =
           [lastEvent EXCEPT
               !.kind = "calculateBotPrediction",
               !.prediction =
                   calculateBotPrediction(
                       At(logicState.players, logicState.activePlayerIndex).hand,
                       logicState.cardsThisRound, logicState.players,
                       logicState.activePlayerIndex, lastEvent.difficulty, lastEvent.rnd)]
    /\ UNCHANGED logicState
    /\ EngineFrame

NextBot == CalculateBotPrediction

SpecBot == InitBot /\ [][NextBot]_vars

\* The seats in play other than the deciding one.
BotRivals == {k \in Alive : k - 1 # logicState.activePlayerIndex}

BotIsLastPredictor == \A k \in BotRivals : Players[k].prediction >= 0

RECURSIVE SumOver(_, _)
SumOver(f, S) ==
    IF S = {} THEN 0
    ELSE LET x == CHOOSE y \in S : TRUE IN f[x] + SumOver(f, S \ {x})

\* C30: the prediction of the Decision Engine is an integer within
\* 0..cardsThisRound, and when the deciding seat is the last predictor of the
\* round it is not cardsThisRound minus the sum of the predictions the other
\* seats have declared, so that makePrediction accepts it.
C30_BotPrediction ==
    lastEvent.kind = "calculateBotPrediction" =>
        /\ lastEvent.prediction \in 0..logicState.cardsThisRound
        /\ BotIsLastPredictor =>
               /\ lastEvent.prediction #
                      logicState.cardsThisRound
                          - SumOver([k \in BotRivals |-> Players[k].prediction], BotRivals)
               /\ makePrediction(logicState, logicState.activePlayerIndex,
                                 lastEvent.prediction).success

\* beats(a, b) of the client's engine/rules: a is the greater card under the
\* comparator of the Rules Engine.
beats(a, b) == compareCards(a, b) > 0

\* calculateBotPlay.  getValidMoves allows every index of the hand, so moves
\* are the indices of the hand; the sorts compare card.rank alone and are
\* stable, so among cards of one rank the order of the hand decides.  rnd
\* holds the outcome of Math.random() < 0.3 and the index drawn after it.
calculateBotPlay(hand, currentTrick, difficulty, myTricksWon, myPrediction, rnd) ==
    LET validIndices == getValidMoves(hand)
        moves == {At(validIndices, k) : k \in 0..(Len(validIndices) - 1)}
        rank(i) == At(hand, i).rank
        \* [0] of a stable sort of the set S by rank, descending / ascending
        highestOf(S) ==
            CHOOSE i \in S : \A j \in S : rank(j) < rank(i) \/ (rank(j) = rank(i) /\ i <= j)
        lowestOf(S) ==
            CHOOSE i \in S : \A j \in S : rank(j) > rank(i) \/ (rank(j) = rank(i) /\ i <= j)
        \* last element of the stable sort of moves by rank, descending
        lowestCard ==
            CHOOSE i \in moves :
                \A j \in moves : rank(j) > rank(i) \/ (rank(j) = rank(i) /\ j <= i)
        highestCard == highestOf(moves)
        wantToWin == myTricksWon < myPrediction
        isLeading == Len(currentTrick) = 0
        RECURSIVE winnerFrom(_, _)
        winnerFrom(i, winner) ==
            IF i >= Len(currentTrick) THEN winner
            ELSE IF beats(At(currentTrick, i).card, winner.card)
                 THEN winnerFrom(i + 1, At(currentTrick, i))
                 ELSE winnerFrom(i + 1, winner)
        currentWinner == winnerFrom(1, At(currentTrick, 0))
        winningMoves == {i \in moves : beats(At(hand, i), currentWinner.card)}
        losingMoves == moves \ winningMoves
    IN  IF Len(validIndices) = 0 THEN 0
        ELSE IF Len(validIndices) = 1 THEN At(validIndices, 0)
        ELSE IF difficulty = "easy"
             THEN (IF rnd.random THEN rnd.pick ELSE highestCard)
        ELSE IF isLeading
             THEN (IF wantToWin THEN highestCard ELSE lowestCard)
        ELSE IF wantToWin
             THEN (IF winningMoves # {} THEN lowestOf(winningMoves) ELSE lowestCard)
        ELSE IF winningMoves = moves THEN highestCard
        ELSE IF difficulty = "hard" THEN highestOf(losingMoves)
        ELSE lowestOf(losingMoves)

\* calculateBotPlay applied once for the active seat of a state of phase
\* playing: a hand of 1..MaxBotHand cards and a trick of 0..2 cards, all
\* distinct, the seat under its quota or at it.
MaxBotHand == 3

BotCards ==
    {[suit |-> "oros", rank |-> 4], [suit |-> "oros", rank |-> 5],
     [suit |-> "bastos", rank |-> 5], [suit |-> "copas", rank |-> 7],
     [suit |-> "espadas", rank |-> 12], [suit |-> "bastos", rank |-> 1]}

DistinctSeqs(S, lo, hi) ==
    UNION {{s \in [1..n -> S] : \A p \in 1..n : \A q \in 1..n : p # q => s[p] # s[q]} :
           n \in lo..hi}

BotPlayState(hand, trickCards, tricksWon) ==
    LET me == Len(trickCards) + 1
    IN  [phase |-> "playing",
         players |->
             [k \in 1..3 |->
                 [BotPlayer(k, [isEliminated |-> FALSE, prediction |-> IF k = me THEN 1 ELSE 0],
                            IF k = me THEN hand ELSE <<>>)
                  EXCEPT !.tricksWon = IF k = me THEN tricksWon ELSE 0]],
         currentRound |-> 1,
         cardsThisRound |-> 5,
         dealerIndex |-> 2,
         activePlayerIndex |-> me - 1,
         currentTrick |-> [p \in 1..Len(trickCards) |-> [playerId |-> p, card |-> trickCards[p]]],
         trickNumber |-> 1,
         winnerId |-> NULL,
         turnTimer |-> TURN_TIMER_SECONDS]

InitBotPlay ==
    /\ EngineIdle
    /\ \E hand \in DistinctSeqs(BotCards, 1, MaxBotHand) :
       \E trickCards \in DistinctSeqs(BotCards, 0, 2) :
       \E tricksWon \in {0, 1} :
           /\ \A p \in 1..Len(hand) : \A q \in 1..Len(trickCards) : hand[p] # trickCards[q]
           /\ logicState = BotPlayState(hand, trickCards, tricksWon)
    /\ \E difficulty \in BotDifficulty :
           lastEvent = [kind |-> "arguments", difficulty |-> difficulty, index |-> -1]

CalculateBotPlay ==
    /\ lastEvent.kind = "arguments"
    /\ LET me == At(logicState.players, logicState.activePlayerIndex)
       IN  \E random \in BOOLEAN : \E pick \in 0..(Len(me.hand) - 1) :
               lastEvent' =
                   [lastEvent EXCEPT
                       !.kind = "calculateBotPlay",
                       !.index = calculateBotPlay(me.hand, logicState.currentTrick,
                                                  lastEvent.difficulty, me.tricksWon,
                                                  me.prediction,
                                                  [random |-> random, pick |-> pick])]
    /\ UNCHANGED logicState
    /\ EngineFrame

NextBotPlay == CalculateBotPlay

SpecBotPlay == InitBotPlay /\ [][NextBotPlay]_vars

\* The deciding seat, its hand, and the cards of the hand by strength.
BotSeat == At(Players, logicState.activePlayerIndex)

BotIndices == 0..(Len(BotSeat.hand) - 1)

WeakestOf(S) ==
    CHOOSE i \in S : \A j \in S \ {i} : compareCards(At(BotSeat.hand, j), At(BotSeat.hand, i)) > 0

StrongestOf(S) ==
    CHOOSE i \in S : \A j \in S \ {i} : compareCards(At(BotSeat.hand, i), At(BotSeat.hand, j)) > 0

UnderQuota == BotSeat.tricksWon < BotSeat.prediction

\* The indices of the hand whose card beats the card leading the trick.
BeatsLeader ==
    {i \in BotIndices :
        \A pc \in Range(logicState.currentTrick) :
            compareCards(At(BotSeat.hand, i), pc.card) > 0}

\* C31: following a non-empty trick, the Decision Engine returns a legal
\* index of the hand; under quota it is the lowest card that beats the
\* leader of the trick, or the lowest card of the hand when none does; with
\* the quota met it is a card that does not beat the leader when there is
\* one, the highest such on the hard tier and the lowest on the other tiers,
\* and a winning card only when every card of the hand beats the leader.
C31_BotFollows ==
    (lastEvent.kind = "calculateBotPlay" /\ logicState.currentTrick # <<>>) =>
        /\ lastEvent.index \in BotIndices
        /\ UnderQuota =>
               lastEvent.index =
                   IF BeatsLeader # {} THEN WeakestOf(BeatsLeader) ELSE WeakestOf(BotIndices)
        /\ (~UnderQuota /\ BeatsLeader # BotIndices) =>
               lastEvent.index =
                   IF lastEvent.difficulty = "hard"
                   THEN StrongestOf(BotIndices \ BeatsLeader)
                   ELSE WeakestOf(BotIndices \ BeatsLeader)

\* C32: leading an empty trick, on every tier and for every hand, the
\* Decision Engine returns the index of the strongest card of the hand when
\* tricksWon < prediction and of the weakest card otherwise.
C32_BotLeads ==
    (lastEvent.kind = "calculateBotPlay" /\ logicState.currentTrick = <<>>) =>
        lastEvent.index =
            IF UnderQuota THEN StrongestOf(BotIndices) ELSE WeakestOf(BotIndices)

\* The first non-eliminated seat met when stepping to the right from seat i
\* (0-based); i itself when no other seat is left.
RightNeighbour(players, i) ==
    LET n == Len(players)
        d == CHOOSE d \in 1..n :
                 /\ ~At(players, (i + d) % n).isEliminated
                 /\ \A e \in 1..(d - 1) : At(players, (i + e) % n).isEliminated
    IN  (i + d) % n

\* The non-eliminated seats strictly between the dealer and seat i, walking to
\* the right from the dealer.
BeforeInOrder(state, i) ==
    LET n == Len(state.players)
        dist(k) == ((k - state.dealerIndex + n - 1) % n)
    IN  {k \in 0..(n - 1) : /\ ~At(state.players, k).isEliminated
                            /\ dist(k) < dist(i)}

\* The seats whose prediction is recorded by the step.
Predicting ==
    {k \in 0..(Len(Players) - 1) : /\ k < Len(logicState'.players)
                   /\ At(Players, k).prediction = -1
                   /\ At(logicState'.players, k).prediction >= 0}

\* C33: dealer rotation and prediction order.  Each new round after the first
\* moves dealerIndex to the next non-eliminated seat after the previous
\* dealer; within predicting the predictions are recorded one at a time in
\* circular seat order from the dealer's right neighbour, no recorded
\* prediction changes, the dealer predicts last, and the phase becomes playing
\* exactly on the dealer's accepted prediction, the dealer's right neighbour
\* leading the first trick.
C33_DealerAndPredictionOrder ==
    [][/\ (/\ logicState.currentRound >= 1
           /\ logicState'.currentRound = logicState.currentRound + 1
           /\ \E k \in 1..Len(logicState'.players) : ~logicState'.players[k].isEliminated)
              => logicState'.dealerIndex
                     = RightNeighbour(logicState'.players, logicState.dealerIndex)
       /\ (Phase = "predicting" /\ logicState'.currentRound = logicState.currentRound)
              => /\ Cardinality(Predicting) <= 1
                 /\ \A k \in Predicting :
                        /\ ~At(Players, k).isEliminated
                        /\ \A j \in BeforeInOrder(logicState, k) :
                               At(Players, j).prediction >= 0
                 /\ \A k \in 0..(Len(Players) - 1) :
                        (k < Len(logicState'.players) /\ At(Players, k).prediction >= 0)
                            => At(logicState'.players, k).prediction
                                   = At(Players, k).prediction
       /\ (Phase = "predicting" /\ logicState'.phase = "playing")
              => /\ Predicting = {logicState.dealerIndex}
                 /\ \A k \in 0..(Len(logicState'.players) - 1) :
                        ~At(logicState'.players, k).isEliminated
                            => At(logicState'.players, k).prediction >= 0
                 /\ logicState'.activePlayerIndex
                        = RightNeighbour(logicState'.players, logicState.dealerIndex)
                 /\ logicState'.currentTrick = <<>>
                 /\ logicState'.trickNumber = 1
       /\ (Phase = "predicting" /\ logicState.dealerIndex \in Predicting)
              => logicState'.phase = "playing"]_vars

\* Seats (0-based) with a card in the trick.
SeatsOfTrick(state) ==
    {FindIndex(state.players, state.currentTrick[j].playerId) :
        j \in 1..Len(state.currentTrick)}

\* The seat whose card in the trick is greater than every other card in it.
TrickWinner(state) ==
    LET trick == state.currentTrick
        j == CHOOSE j \in 1..Len(trick) :
                 \A m \in 1..Len(trick) : m # j => Beats(trick[j].card, trick[m].card)
    IN  FindIndex(state.players, trick[j].playerId)

\* The non-eliminated seats strictly between the leader of the trick and seat
\* i, walking to the right from the leader.
BetweenLeaderAnd(state, i) ==
    LET n == Len(state.players)
        leader == FindIndex(state.players, state.currentTrick[1].playerId)
        dist(k) == (k - leader + n) % n
    IN  {k \in 0..(n - 1) : /\ ~At(state.players, k).isEliminated
                            /\ 0 < dist(k) /\ dist(k) < dist(i)}

\* C34: trick flow within a round.  Each card enters the trick from a
\* non-eliminated seat that has none in it, in circular order from the
\* leader; the trick is complete when every non-eliminated seat has exactly
\* one card in it; resolving it adds 1 to the winner's tricksWon and to no
\* other, empties currentTrick, and makes the winner lead trick
\* trickNumber + 1 when trickNumber < cardsThisRound, or scores the round when
\* trickNumber = cardsThisRound, every non-eliminated hand being empty then.
C34_TrickFlow ==
    [][/\ (/\ Phase = "playing"
           /\ logicState'.currentRound = logicState.currentRound
           /\ Len(logicState'.currentTrick) = Len(logicState.currentTrick) + 1)
              => LET k == FindIndex(Players,
                              logicState'.currentTrick[Len(logicState'.currentTrick)].playerId)
                 IN  /\ k # -1
                     /\ ~At(Players, k).isEliminated
                     /\ k \notin SeatsOfTrick(logicState)
                     /\ logicState.currentTrick # <<>>
                            => BetweenLeaderAnd(logicState, k) \subseteq SeatsOfTrick(logicState)
       /\ (Phase = "playing" /\ logicState'.phase = "trickResolve")
              => /\ SeatsOfTrick(logicState')
                        = {k \in 0..(Len(logicState'.players) - 1) :
                              ~At(logicState'.players, k).isEliminated}
                 /\ Len(logicState'.currentTrick) = Cardinality(SeatsOfTrick(logicState'))
       /\ (TrickTimeout /\ Phase = "trickResolve" /\ logicState.currentTrick # <<>>)
              => LET w == TrickWinner(logicState)
                 IN  /\ \A k \in 0..(Len(Players) - 1) :
                            At(logicState'.players, k).tricksWon
                                = At(Players, k).tricksWon + (IF k = w THEN 1 ELSE 0)
                     /\ logicState'.currentTrick = <<>>
                     /\ logicState.trickNumber < logicState.cardsThisRound
                            => /\ logicState'.phase = "playing"
                               /\ logicState'.activePlayerIndex = w
                               /\ logicState'.trickNumber = logicState.trickNumber + 1
                     /\ logicState.trickNumber = logicState.cardsThisRound
                            => /\ logicState'.phase \in {"scoring", "gameOver"}
                               /\ \A k \in 0..(Len(Players) - 1) :
                                      ~At(Players, k).isEliminated
                                          => At(logicState'.players, k).hand = <<>>
       /\ (Phase # "scoring" /\ logicState'.phase = "scoring")
              => /\ TrickTimeout
                 /\ logicState.trickNumber = logicState.cardsThisRound]_vars

\* ------------------------------------------- getNextActivePlayerIndex alone
\* getNextActivePlayerIndex applied once to 2 to 8 seats of which any subset
\* is eliminated, from every seat and in both directions; lastEvent records
\* the arguments, the result and the iterations of the loop.
NextActiveCall(kind, currentIndex, direction, next, safety) ==
    [kind |-> kind, currentIndex |-> currentIndex, direction |-> direction,
     next |-> next, safety |-> safety]

InitNextActive ==
    /\ EngineIdle
    /\ \E n \in 2..MAX_PLAYERS : \E eliminated \in SUBSET (1..n) :
       \E currentIndex \in 0..(n - 1) : \E direction \in {1, -1} :
           /\ logicState = DealState(n, eliminated, 1, 0)
           /\ lastEvent = NextActiveCall("arguments", currentIndex, direction, -1, 0)

GetNextActivePlayerIndex ==
    /\ lastEvent.kind = "arguments"
    /\ LET n == Len(logicState.players)
           start == (lastEvent.currentIndex + lastEvent.direction + n) % n
       IN  lastEvent' =
               NextActiveCall("getNextActivePlayerIndex",
                              lastEvent.currentIndex, lastEvent.direction,
                              getNextActivePlayerIndex(lastEvent.currentIndex,
                                                       logicState.players,
                                                       lastEvent.direction),
                              NextActiveLoop(start, 0, logicState.players,
                                             lastEvent.direction).safety)
    /\ UNCHANGED logicState
    /\ EngineFrame

NextNextActive == GetNextActivePlayerIndex

SpecNextActive == InitNextActive /\ [][NextNextActive]_vars

CardsInPlay(state) ==
    Concat([k \in 1..Len(state.players) |-> state.players[k].hand])
        \o [j \in 1..Len(state.currentTrick) |-> state.currentTrick[j].card]

\* C36: card conservation within a round.  In every reachable state the cards
\* in the hands and in currentTrick are pairwise distinct and no seat has more
\* than one card in currentTrick; and when a trick is resolved no card in it
\* belongs to an eliminated seat, so that the seat credited with the trick and
\* made leader is non-eliminated.
C36_CardConservation ==
    /\ [](/\ Cardinality({CardId(c) : c \in Range(CardsInPlay(logicState))})
                = Len(CardsInPlay(logicState))
          /\ \A k \in Seats : CardsInTrick(k) <= 1)
    /\ [][(TrickTimeout /\ Phase = "trickResolve" /\ logicState.currentTrick # <<>>)
              => /\ \A k \in SeatsOfTrick(logicState) :
                        k # -1 /\ ~At(Players, k).isEliminated
                 /\ \A k \in 0..(Len(Players) - 1) :
                        At(logicState'.players, k).tricksWon > At(Players, k).tricksWon
                            => ~At(logicState'.players, k).isEliminated
                 /\ logicState'.phase = "playing"
                        => ~At(logicState'.players,
                               logicState'.activePlayerIndex).isEliminated]_vars

\* Total lives of the non-eliminated seats.
LivesAtStake(players) ==
    SumOver([k \in 1..Len(players) |-> players[k].lives],
            {k \in 1..Len(players) : ~players[k].isEliminated})

\* C37: match termination.  Whenever a round with two or more non-eliminated
\* seats is scored at the end of its last trick, some non-eliminated seat has a prediction different from its
\* tricksWon, and the total lives of the non-eliminated seats after
\* applyScores are strictly fewer than before: the measure that bounds the
\* number of rounds to gameOver.
C37_MatchTerminates ==
    [][(/\ AppliesScores
        /\ Phase = "trickResolve"
        /\ ActiveCount(ScoringInput.players) >= 2)
           => /\ \E k \in 1..Len(ScoringInput.players) :
                     /\ ~ScoringInput.players[k].isEliminated
                     /\ ScoringInput.players[k].prediction
                            # ScoringInput.players[k].tricksWon
              /\ LivesAtStake(logicState'.players) < LivesAtStake(Players)]_vars

\* C38: players reaching zero lives are eliminated.  After applyScores has
\* scored a round in which every seat predicted and the cardsThisRound tricks
\* were won, and the match goes on, each non-eliminated seat has lives >= 1
\* and each seat with lives <= 0 is eliminated.
C38_ZeroLivesEliminated ==
    (/\ lastEvent = Event("applyScores", TRUE)
     /\ Phase = "scoring"
     /\ \A k \in Seats : Players[k].prediction >= 0
     /\ TricksWonSum(Players) = logicState.cardsThisRound)
        => \A k \in Seats :
               /\ ~Players[k].isEliminated => Players[k].lives >= 1
               /\ Players[k].lives <= 0 => Players[k].isEliminated

Hosts == {k \in Seats : Players[k].isHost}

\* C39: host uniqueness and existence.  In every reachable state at most one
\* seat is host, and while phase is lobby and some connected non-bot seat is
\* in the roster exactly one seat is host.
C39_HostUnique ==
    /\ Cardinality(Hosts) <= 1
    /\ (/\ Phase = "lobby"
        /\ \E k \in Seats : Players[k].isConnected /\ ~Players[k].isBot)
           => Cardinality(Hosts) = 1

\* C40: every event handler terminates.  No predict message and no expiry of
\* the turn timer starts a call that never returns: the loop of
\* getPredictionOrder reaches dealerIndex for every prediction that
\* makePrediction validates, also after the dealer has surrendered during the
\* round.
C40_HandlersTerminate ==
    [][/\ \A c \in Clients : \A v \in PredictionInputs :
              PredictMsg(c, v)
                  => /\ ~makePrediction(logicState, FindIndex(Players, c), v).diverges
                     /\ ~halted'
       /\ Tick => ~halted']_vars

====
